---- MODULE Spec2Model ----
(***************************************************************************)
(* The SVG module drawers of python-qrcode                                 *)
(* (src/qrcode/image/styles/moduledrawers/svg.py): one drawer object, the  *)
(* images it is initialized for, and the render pass that calls drawrect   *)
(* on every module of the matrix in row-major order.                       *)
(*                                                                         *)
(* Decimal values are held exactly, as integers in units of 1/Scale.       *)
(* Strings built by f-strings are held as sequences of tokens: the literal *)
(* chunks (Lit) and the formatted numbers (Num), in the order written.     *)
(***************************************************************************)
EXTENDS Integers, Sequences, FiniteSets, TLC

VARIABLES
  drawer,     \* the drawer object: its class and its attributes
  modules,    \* the matrix being rendered: cell -> active?
  next_cell,  \* row-major index of the next module of the current pass
  passes,     \* number of initialize calls made so far
  _img,       \* per image: img._img, the list of elements appended so far
  _subpaths,  \* per image: img._subpaths, the list of path fragments
  random_state, \* state of the process-wide random source
  calls,      \* history of the drawrect calls: arguments and what each appended
  eye_img,    \* the image the region classifier reads (self.img), None in a render
  eye         \* the last call of the region classifier, if any: position and answers

vars == <<drawer, modules, next_cell, passes, _img, _subpaths, random_state, calls,
          eye_img, eye>>

-----------------------------------------------------------------------------
(* Bounds *)

\* size_ratio ranges over the multiples k/RatioDen, 0 <= k <= RatioDen + 1
RatioDen == 2
\* the matrix has GridN x GridN modules
GridN == 3
\* initialize is called at most MaxPasses times (one render pass each)
MaxPasses == 2

-----------------------------------------------------------------------------
(* Decimal arithmetic and string building *)

\* One unit of the fixed-point representation: every value the drawers
\* compute is a multiple of 1/(20 * RatioDen) (halves of size_ratio * box_size,
\* then tenths in units()).
Scale == 20 * RatioDen

\* Decimal(n) for an integer n
Decimal(n) == n * Scale

\* the product of two Decimal values
DecMul(a, b) == (a * b) \div Scale

None == "None"

\* the pieces of a formatted string: a literal chunk, a formatted Decimal, a formatted int
Lit(s) == [lit |-> s, num |-> 0]
Num(x) == [lit |-> "", num |-> x]
IntTok(n) == [lit |-> "int", num |-> n]

-----------------------------------------------------------------------------
(* The collaborators: the images and the matrix *)

ImgIds == {"A", "B"}

\* The attributes of an image the drawers read: box_size (pixels per module),
\* border (modules), front_color, and pixel_size (side of the image in pixels).
Images ==
  [i \in ImgIds |->
     LET bs == IF i = "A" THEN 10 ELSE 4
         bd == IF i = "A" THEN 4 ELSE 1
     IN  [box_size |-> bs, border |-> bd,
          front_color |-> IF i = "A" THEN "black" ELSE "blue",
          pixel_size |-> (GridN + 2 * bd) * bs]]

\* img.units(pixels, text=False): Decimal(pixels) / 10
units(pixels) == pixels \div 10

\* img.pixel_box(row, col): the pixel corners of a module; box[0] is (x, y)
pixel_box(i, row, col) ==
  LET px == (col + Images[i].border) * Images[i].box_size
      py == (row + Images[i].border) * Images[i].box_size
  IN  <<<<px, py>>, <<px + Images[i].box_size - 1, py + Images[i].box_size - 1>>>>

Cells == (0 .. GridN - 1) \X (0 .. GridN - 1)
NCells == GridN * GridN

\* qr.is_constrained(row, col) and qr.modules[row][col]
active(m, row, col) == <<row, col>> \in Cells /\ m[<<row, col>>]

\* qr.active_with_neighbors(row, col): the module and its eight neighbours
active_with_neighbors(m, row, col) ==
  [NW |-> active(m, row - 1, col - 1), N |-> active(m, row - 1, col),
   NE |-> active(m, row - 1, col + 1), W |-> active(m, row, col - 1),
   me |-> active(m, row, col), E |-> active(m, row, col + 1),
   SW |-> active(m, row + 1, col - 1), S |-> active(m, row + 1, col),
   SE |-> active(m, row + 1, col + 1)]

\* ActiveWithNeighbors.__bool__: the truth value of a context is its own module
bool(is_active) == is_active.me

\* random.randint(0, 360) returns an integer N with 0 <= N <= 360; the
\* outcomes followed here are the two ends of that range and one inner value
RandOutcomes == <<0, 360, 180>>
randint(state) == RandOutcomes[state + 1]
random_next(state) == (state + 1) % Len(RandOutcomes)

-----------------------------------------------------------------------------
(* BaseSvgQRModuleDrawer *)

\* BaseSvgQRModuleDrawer.__init__(size_ratio=..., **kwargs); attributes that
\* initialize sets later do not exist yet (held as 0 / <<>> / None)
BaseSvgQRModuleDrawer_init(cls, size_ratio, kwargs) ==
  [cls |-> cls,
   size_ratio |-> size_ratio,
   fill_color |-> IF "fill_color" \in DOMAIN kwargs THEN kwargs.fill_color ELSE None,
   img |-> None,
   box_delta |-> 0, box_size |-> 0, box_half |-> 0,
   unit_size |-> <<>>, radius |-> <<>>]

\* (mutant of BaseSvgQRModuleDrawer_initialize: box_delta is the whole of the
\* space left over, not half of it)
BaseSvgQRModuleDrawer_initialize_whole_delta(self, i) ==
  LET bsize == DecMul(Decimal(Images[i].box_size), self.size_ratio)
  IN  [self EXCEPT
         !.img = i,
         !.box_delta = (Decimal(1) - self.size_ratio) * Images[i].box_size,
         !.box_size = bsize,
         !.box_half = bsize \div 2,
         !.fill_color = IF self.fill_color \in {None, ""}
                        THEN Images[i].front_color ELSE self.fill_color]

\* (mutant of BaseSvgQRModuleDrawer_initialize: box_delta adds up from one
\* initialize to the next)
BaseSvgQRModuleDrawer_initialize_adding_delta(self, i) ==
  LET bsize == DecMul(Decimal(Images[i].box_size), self.size_ratio)
  IN  [self EXCEPT
         !.img = i,
         !.box_delta = self.box_delta + ((Decimal(1) - self.size_ratio) * Images[i].box_size) \div 2,
         !.box_size = bsize,
         !.box_half = bsize \div 2,
         !.fill_color = IF self.fill_color \in {None, ""}
                        THEN Images[i].front_color ELSE self.fill_color]

\* BaseSvgQRModuleDrawer.initialize(img)
BaseSvgQRModuleDrawer_initialize(self, i) ==
  LET bsize == DecMul(Decimal(Images[i].box_size), self.size_ratio)
  IN  [self EXCEPT
         !.img = i,
         !.box_delta = ((Decimal(1) - self.size_ratio) * Images[i].box_size) \div 2,
         !.box_size = bsize,
         !.box_half = bsize \div 2,
         !.fill_color = IF self.fill_color \in {None, ""}
                        THEN Images[i].front_color ELSE self.fill_color]

\* (mutant of coords: the far corner is the last pixel of the box)
coords_inclusive(self, box) ==
  LET row == box[1][1]
      col == box[1][2]
      x == Decimal(row) + self.box_delta
      y == Decimal(col) + self.box_delta
  IN  [x0 |-> x, y0 |-> y,
       x1 |-> x + self.box_size - Decimal(1), y1 |-> y + self.box_size - Decimal(1),
       xh |-> x + self.box_half, yh |-> y + self.box_half]

\* (mutant of coords: both coordinates are taken from the row)
coords_row_twice(self, box) ==
  LET row == box[1][1]
      x == Decimal(row) + self.box_delta
  IN  [x0 |-> x, y0 |-> x,
       x1 |-> x + self.box_size, y1 |-> x + self.box_size,
       xh |-> x + self.box_half, yh |-> x + self.box_half]

\* (mutant of coords: the box is shifted by the number of elements already
\* in the sink)
coords_shifted_by_sink(self, box) ==
  LET row == box[1][1] + Len(_img[self.img]) + Len(_subpaths[self.img])
      col == box[1][2]
      x == Decimal(row) + self.box_delta
      y == Decimal(col) + self.box_delta
  IN  [x0 |-> x, y0 |-> y,
       x1 |-> x + self.box_size, y1 |-> y + self.box_size,
       xh |-> x + self.box_half, yh |-> y + self.box_half]

\* BaseSvgQRModuleDrawer.coords(box)
coords(self, box) ==
  LET row == box[1][1]
      col == box[1][2]
      x == Decimal(row) + self.box_delta
      y == Decimal(col) + self.box_delta
  IN  [x0 |-> x, y0 |-> y,
       x1 |-> x + self.box_size, y1 |-> y + self.box_size,
       xh |-> x + self.box_half, yh |-> y + self.box_half]

\* (mutant of is_eye_outer: the fourth corner is an eye too, and the limits
\* are inclusive towards the middle of the image)
is_eye_outer_four_corners(img, row, col) ==
  LET border_width == img.border * img.box_size
      eye_limit == border_width + (img.box_size * 7) + img.box_size
      image_width == img.pixel_size
  IN  \/ (row < eye_limit /\ col < eye_limit)
      \/ (row < eye_limit /\ col > image_width - eye_limit)
      \/ (row > image_width - eye_limit /\ col < eye_limit)
      \/ (row >= eye_limit /\ col >= eye_limit)

\* BaseSvgQRModuleDrawer.is_eye_outer(row, col); img is self.img
is_eye_outer(img, row, col) ==
  LET border_width == img.border * img.box_size
      eye_limit == border_width + (img.box_size * 7) + img.box_size
      image_width == img.pixel_size
  IN  \/ (row < eye_limit /\ col < eye_limit)
      \/ (row < eye_limit /\ col > image_width - eye_limit)
      \/ (row > image_width - eye_limit /\ col < eye_limit)

\* BaseSvgQRModuleDrawer.is_eye_center(row, col); img is self.img
is_eye_center(img, row, col) ==
  LET border_width == img.border * img.box_size
      inner_limit == border_width + (img.box_size * 4) + img.box_size
      image_width == img.pixel_size
  IN  \/ /\ (border_width + img.box_size) < row /\ row < inner_limit
         /\ (border_width + img.box_size) < col /\ col < inner_limit
      \/ /\ (border_width + img.box_size) < row /\ row < inner_limit
         /\ /\ image_width - inner_limit <= col
            /\ col < image_width - border_width - (img.box_size * 2)
      \/ /\ /\ image_width - inner_limit <= row
            /\ row < image_width - border_width - (img.box_size * 2)
         /\ (border_width + img.box_size) < col /\ col < inner_limit

-----------------------------------------------------------------------------
(* The drawers that ignore the neighbours *)

\* (mutant of SvgSquareDrawer_el: x and y are exchanged)
SvgSquareDrawer_el_transposed(self, box) ==
  [tag |-> "rect",
   x |-> <<Num(units(coords(self, box).y0))>>,
   y |-> <<Num(units(coords(self, box).x0))>>,
   width |-> self.unit_size,
   height |-> self.unit_size,
   fill |-> self.fill_color]

\* SvgSquareDrawer.el
SvgSquareDrawer_el(self, box) ==
  [tag |-> "rect",
   x |-> <<Num(units(coords(self, box).x0))>>,
   y |-> <<Num(units(coords(self, box).y0))>>,
   width |-> self.unit_size,
   height |-> self.unit_size,
   fill |-> self.fill_color]

\* SvgCircleDrawer.el
SvgCircleDrawer_el(self, box) ==
  [tag |-> "circle",
   cx |-> <<Num(units(coords(self, box).xh))>>,
   cy |-> <<Num(units(coords(self, box).yh))>>,
   r |-> self.radius,
   fill |-> self.fill_color]

\* SvgDiamonDrawer.el
SvgDiamonDrawer_el(self, box) ==
  LET x0 == units(coords(self, box).x0)
      y0 == units(coords(self, box).y0)
      xh == units(coords(self, box).xh)
      yh == units(coords(self, box).yh)
      y1 == units(coords(self, box).y1)
      x1 == units(coords(self, box).x1)
  IN  [tag |-> "path",
       d |-> <<Lit("M"), Num(x0), Lit(","), Num(yh), Lit("L"), Num(xh), Lit(","), Num(y0),
               Lit("L"), Num(x1), Lit(","), Num(yh), Lit("L"), Num(xh), Lit(","), Num(y1),
               Lit("Z")>>,
       fill |-> self.fill_color]

\* SvgRandomSquareDrawer.el; random_rotate is the value random.randint returned
SvgRandomSquareDrawer_el(self, box, random_rotate) ==
  LET x0 == units(coords(self, box).x0)
      y0 == units(coords(self, box).y0)
      y1 == units(coords(self, box).y1)
      x1 == units(coords(self, box).x1)
      yh == units(coords(self, box).yh)
      xh == units(coords(self, box).xh)
  IN  [tag |-> "polygon",
       points |-> <<Num(x0), Lit(","), Num(yh), Lit(" "), Num(xh), Lit(","), Num(y0),
                    Lit(" "), Num(x1), Lit(","), Num(yh), Lit(" "), Num(xh), Lit(","),
                    Num(y1)>>,
       width |-> self.unit_size,
       height |-> self.unit_size,
       x |-> <<Num(x0)>>,
       y |-> <<Num(y0)>>,
       fill |-> self.fill_color,
       transform |-> <<Lit("rotate("), IntTok(random_rotate), Lit(", "), Num(xh), Lit(", "),
                       Num(yh), Lit(")")>>]

\* SvgQRModuleDrawer.el, as each subclass overrides it
el(self, box, random_rotate) ==
  CASE self.cls = "SvgSquareDrawer" -> SvgSquareDrawer_el(self, box)
    [] self.cls = "SvgCircleDrawer" -> SvgCircleDrawer_el(self, box)
    [] self.cls = "SvgDiamonDrawer" -> SvgDiamonDrawer_el(self, box)
    [] self.cls = "SvgRandomSquareDrawer" -> SvgRandomSquareDrawer_el(self, box, random_rotate)

\* SvgQRModuleDrawer.drawrect: what the call appends to img._img
SvgQRModuleDrawer_drawrect(self, box, is_active, random_rotate) ==
  IF ~is_active
  THEN <<>>
  ELSE <<el(self, box, random_rotate)>>

\* (mutant of SvgBlankDrawer_drawrect: an active module is drawn as a square)
SvgBlankDrawer_drawrect_square(self, box, is_active) ==
  IF ~is_active THEN <<>> ELSE <<SvgSquareDrawer_el(self, box)>>

\* SvgBlankDrawer.drawrect
SvgBlankDrawer_drawrect(self, box, is_active) == <<>>

\* SvgPathSquareDrawer.subpath
SvgPathSquareDrawer_subpath(self, box) ==
  LET x0 == units(coords(self, box).x0)
      y0 == units(coords(self, box).y0)
      x1 == units(coords(self, box).x1)
      y1 == units(coords(self, box).y1)
  IN  <<Lit("M"), Num(x0), Lit(","), Num(y0), Lit("H"), Num(x1), Lit("V"), Num(y1),
        Lit("H"), Num(x0), Lit("z")>>

\* SvgPathCircleDrawer.subpath
SvgPathCircleDrawer_subpath(self, box) ==
  LET x0 == units(coords(self, box).x0)
      yh == units(coords(self, box).yh)
      h == units(self.box_half - self.box_delta)
      x1 == units(coords(self, box).x1)
  IN  <<Lit("M"), Num(x0), Lit(","), Num(yh), Lit("A"), Num(h), Lit(","), Num(h),
        Lit(" 0 0 0 "), Num(x1), Lit(","), Num(yh), Lit("A"), Num(h), Lit(","), Num(h),
        Lit(" 0 0 0 "), Num(x0), Lit(","), Num(yh), Lit("z")>>

\* SvgPathQRModuleDrawer.subpath, as each subclass overrides it
subpath(self, box) ==
  CASE self.cls = "SvgPathSquareDrawer" -> SvgPathSquareDrawer_subpath(self, box)
    [] self.cls = "SvgPathCircleDrawer" -> SvgPathCircleDrawer_subpath(self, box)

\* SvgPathQRModuleDrawer.drawrect: what the call appends to img._subpaths
SvgPathQRModuleDrawer_drawrect(self, box, is_active) ==
  IF ~is_active
  THEN <<>>
  ELSE <<subpath(self, box)>>

-----------------------------------------------------------------------------
(* The neighbour-aware drawers (needs_neighbors = True) *)

\* (mutant of SvgVerticalBarsDrawer_preds: top_block also looks at the two
\* diagonal neighbours below)
SvgVerticalBarsDrawer_preds_diagonal(is_active) ==
  [top_block |-> (~is_active.N /\ is_active.S /\ is_active.SW /\ is_active.SE),
   bottom_block |-> (~is_active.S /\ is_active.N),
   alone |-> ((~is_active.N /\ ~is_active.S /\ ~is_active.E /\ ~is_active.W) \/ (~is_active.N /\ ~is_active.S))]

\* SvgVerticalBarsDrawer.drawrect: the adjacency predicates (svg.py 284-289)
SvgVerticalBarsDrawer_preds(is_active) ==
  [top_block |-> (~is_active.N /\ is_active.S),
   bottom_block |-> (~is_active.S /\ is_active.N),
   alone |-> ((~is_active.N /\ ~is_active.S /\ ~is_active.E /\ ~is_active.W) \/ (~is_active.N /\ ~is_active.S))]

\* SvgVerticalBarsDrawer.drawrect: the element built for each variant (svg.py 291-317)
SvgVerticalBarsDrawer_el(self, box, variant) ==
  LET h == units((self.box_half - self.box_delta))
      radius == units(self.box_half)
      x0 == units(coords(self, box).x0)
      y0 == units(coords(self, box).y0)
      xh == units(coords(self, box).xh)
      yh == units(coords(self, box).yh)
      x1 == units(coords(self, box).x1)
      y1 == units(coords(self, box).y1)
  IN  CASE variant = "base" -> [tag |-> "path", d |-> <<Lit("M"), Num(x0), Lit(","), Num(y0), Lit("H"), Num(x1), Lit("V"), Num((y1 + h)), Lit("H"), Num(x0), Lit("z")>>, fill |-> self.fill_color]
        [] variant = "top_block" -> [tag |-> "path", d |-> <<Lit("M"), Num(x0), Lit(","), Num(yh), Lit("A"), Num(h), Lit(","), Num(h), Lit(",0,0,1,"), Num(x1), Lit(","), Num(yh), Lit("V"), Num((y1 + h)), Lit("H"), Num(x0), Lit("Z")>>, fill |-> self.fill_color]
        [] variant = "bottom_block" -> [tag |-> "path", d |-> <<Lit("M"), Num(x0), Lit(","), Num(y0), Lit("H"), Num(x1), Lit("V"), Num(yh), Lit("A"), Num(h), Lit(","), Num(h), Lit(",0,0,1,"), Num(x0), Lit(","), Num(yh), Lit("Z")>>, fill |-> self.fill_color]
        [] variant = "alone" -> [tag |-> "circle", cx |-> <<Num(xh)>>, cy |-> <<Num(yh)>>, r |-> <<Num(radius)>>, fill |-> self.fill_color]

\* SvgVerticalBarsDrawer.drawrect: base element, then each true predicate overwrites it in
\* the order of the if statements (svg.py 291-317)
SvgVerticalBarsDrawer_variant(p) ==
  LET el0 == "base"
      el1 == IF p.top_block THEN "top_block" ELSE el0
      el2 == IF p.bottom_block THEN "bottom_block" ELSE el1
      el3 == IF p.alone THEN "alone" ELSE el2
  IN  el3

\* SvgVerticalBarsDrawer.drawrect (svg.py 267-319): what the call appends to img._img
SvgVerticalBarsDrawer_drawrect(self, box, is_active) ==
  IF ~(is_active.N \/ is_active.S \/ is_active.E \/ is_active.W)
  THEN <<>>
  ELSE <<SvgVerticalBarsDrawer_el(self, box, SvgVerticalBarsDrawer_variant(SvgVerticalBarsDrawer_preds(is_active)))>>

\* (mutant of SvgVertical2BarsDrawer_preds: below_block looks at N)
SvgVertical2BarsDrawer_preds_above(is_active) ==
  [below_block |-> ~is_active.N,
   alone |-> ((~is_active.N /\ ~is_active.S /\ ~is_active.E /\ ~is_active.W) \/ (~is_active.N /\ ~is_active.S))]

\* SvgVertical2BarsDrawer.drawrect: the adjacency predicates (svg.py 345-349)
SvgVertical2BarsDrawer_preds(is_active) ==
  [below_block |-> ~is_active.S,
   alone |-> ((~is_active.N /\ ~is_active.S /\ ~is_active.E /\ ~is_active.W) \/ (~is_active.N /\ ~is_active.S))]

\* SvgVertical2BarsDrawer.drawrect: the element built for each variant (svg.py 351-369)
SvgVertical2BarsDrawer_el(self, box, variant) ==
  LET h == units((self.box_half - self.box_delta))
      x0 == units(coords(self, box).x0)
      y0 == units(coords(self, box).y0)
      y1 == units(coords(self, box).y1)
      x1 == units(coords(self, box).x1)
  IN  CASE variant = "base" -> [tag |-> "path", d |-> <<Lit("M"), Num(x0), Lit(","), Num(y0), Lit("H"), Num(x1), Lit("V"), Num((y1 + h)), Lit("H"), Num(x0), Lit("z")>>, fill |-> self.fill_color]
        [] variant = "below_block" -> [tag |-> "path", d |-> <<Lit("M"), Num(x0), Lit(","), Num(y0), Lit("H"), Num(x1), Lit("V"), Num(y1), Lit("H"), Num(x0), Lit("Z")>>, fill |-> self.fill_color]
        [] variant = "alone" -> [tag |-> "path", d |-> <<Lit("M"), Num(x0), Lit(","), Num(y0), Lit("H"), Num(x1), Lit("V"), Num(y1), Lit("H"), Num(x0), Lit("Z")>>, fill |-> self.fill_color]

\* SvgVertical2BarsDrawer.drawrect: base element, then each true predicate overwrites it in
\* the order of the if statements (svg.py 351-369)
SvgVertical2BarsDrawer_variant(p) ==
  LET el0 == "base"
      el1 == IF p.below_block THEN "below_block" ELSE el0
      el2 == IF p.alone THEN "alone" ELSE el1
  IN  el2

\* SvgVertical2BarsDrawer.drawrect (svg.py 332-371): what the call appends to img._img
SvgVertical2BarsDrawer_drawrect(self, box, is_active) ==
  IF ~bool(is_active)
  THEN <<>>
  ELSE <<SvgVertical2BarsDrawer_el(self, box, SvgVertical2BarsDrawer_variant(SvgVertical2BarsDrawer_preds(is_active)))>>

\* SvgHorizontalBarsDrawer.drawrect: the adjacency predicates (svg.py 401-406)
SvgHorizontalBarsDrawer_preds(is_active) ==
  [left_block |-> (~is_active.W /\ is_active.E),
   right_block |-> (~is_active.E /\ is_active.W),
   alone |-> ((~is_active.N /\ ~is_active.S /\ ~is_active.E /\ ~is_active.W) \/ (~is_active.W /\ ~is_active.E))]

\* SvgHorizontalBarsDrawer.drawrect: the element built for each variant (svg.py 408-434)
SvgHorizontalBarsDrawer_el(self, box, variant) ==
  LET h == units((self.box_half - self.box_delta))
      radius == units(self.box_half)
      x0 == units(coords(self, box).x0)
      y0 == units(coords(self, box).y0)
      xh == units(coords(self, box).xh)
      yh == units(coords(self, box).yh)
      y1 == units(coords(self, box).y1)
      x1 == units(coords(self, box).x1)
  IN  CASE variant = "base" -> [tag |-> "path", d |-> <<Lit("M"), Num(x0), Lit(","), Num(y0), Lit("H"), Num((x1 + h)), Lit("V"), Num(y1), Lit("H"), Num(x0), Lit("z")>>, fill |-> self.fill_color]
        [] variant = "left_block" -> [tag |-> "path", d |-> <<Lit("M"), Num(xh), Lit(","), Num(y0), Lit("H"), Num((x1 + h)), Lit("V"), Num(y1), Lit("H"), Num(x0), Lit("A"), Num(h), Lit(","), Num(h), Lit(",0,0,1,"), Num(xh), Lit(","), Num(y0), Lit("Z")>>, fill |-> self.fill_color]
        [] variant = "right_block" -> [tag |-> "path", d |-> <<Lit("M"), Num(x0), Lit(","), Num(y0), Lit("H"), Num(xh), Lit("A"), Num(h), Lit(","), Num(h), Lit(",0,0,1,"), Num(xh), Lit(","), Num(y1), Lit("H"), Num(x0), Lit("Z")>>, fill |-> self.fill_color]
        [] variant = "alone" -> [tag |-> "circle", cx |-> <<Num(xh)>>, cy |-> <<Num(yh)>>, r |-> <<Num(radius)>>, fill |-> self.fill_color]

\* SvgHorizontalBarsDrawer.drawrect: base element, then each true predicate overwrites it in
\* the order of the if statements (svg.py 408-434)
SvgHorizontalBarsDrawer_variant(p) ==
  LET el0 == "base"
      el1 == IF p.left_block THEN "left_block" ELSE el0
      el2 == IF p.right_block THEN "right_block" ELSE el1
      el3 == IF p.alone THEN "alone" ELSE el2
  IN  el3

\* SvgHorizontalBarsDrawer.drawrect (svg.py 384-436): what the call appends to img._img
SvgHorizontalBarsDrawer_drawrect(self, box, is_active) ==
  IF ~bool(is_active)
  THEN <<>>
  ELSE <<SvgHorizontalBarsDrawer_el(self, box, SvgHorizontalBarsDrawer_variant(SvgHorizontalBarsDrawer_preds(is_active)))>>

\* SvgHorizontal2BarsDrawer.drawrect: the adjacency predicates (svg.py 462-466)
SvgHorizontal2BarsDrawer_preds(is_active) ==
  [right_block |-> ~is_active.E,
   alone |-> ((~is_active.N /\ ~is_active.S /\ ~is_active.E /\ ~is_active.W) \/ (~is_active.W /\ ~is_active.E))]

\* SvgHorizontal2BarsDrawer.drawrect: the element built for each variant (svg.py 468-486)
SvgHorizontal2BarsDrawer_el(self, box, variant) ==
  LET h == units((self.box_half - self.box_delta))
      x0 == units(coords(self, box).x0)
      y0 == units(coords(self, box).y0)
      y1 == units(coords(self, box).y1)
      x1 == units(coords(self, box).x1)
  IN  CASE variant = "base" -> [tag |-> "path", d |-> <<Lit("M"), Num(x0), Lit(","), Num(y0), Lit("H"), Num((x1 + h)), Lit("V"), Num(y1), Lit("H"), Num(x0), Lit("z")>>, fill |-> self.fill_color]
        [] variant = "right_block" -> [tag |-> "path", d |-> <<Lit("M"), Num(x0), Lit(","), Num(y0), Lit("H"), Num(x1), Lit("V"), Num(y1), Lit("H"), Num(x0), Lit("Z")>>, fill |-> self.fill_color]
        [] variant = "alone" -> [tag |-> "path", d |-> <<Lit("M"), Num(x0), Lit(","), Num(y0), Lit("H"), Num(x1), Lit("V"), Num(y1), Lit("H"), Num(x0), Lit("Z")>>, fill |-> self.fill_color]

\* SvgHorizontal2BarsDrawer.drawrect: base element, then each true predicate overwrites it in
\* the order of the if statements (svg.py 468-486)
SvgHorizontal2BarsDrawer_variant(p) ==
  LET el0 == "base"
      el1 == IF p.right_block THEN "right_block" ELSE el0
      el2 == IF p.alone THEN "alone" ELSE el1
  IN  el2

\* SvgHorizontal2BarsDrawer.drawrect (svg.py 449-488): what the call appends to img._img
SvgHorizontal2BarsDrawer_drawrect(self, box, is_active) ==
  IF ~bool(is_active)
  THEN <<>>
  ELSE <<SvgHorizontal2BarsDrawer_el(self, box, SvgHorizontal2BarsDrawer_variant(SvgHorizontal2BarsDrawer_preds(is_active)))>>

\* (mutant of SvgRoundedDrawer_preds: the block predicates look at one axis only)
SvgRoundedDrawer_preds_one_axis(is_active) ==
  [left_block |-> (~is_active.W /\ is_active.E),
   right_block |-> (~is_active.E /\ is_active.W),
   top_block |-> (~is_active.N /\ is_active.S),
   bottom_block |-> (~is_active.S /\ is_active.N),
   top_left_corner |-> (~is_active.N /\ ~is_active.W),
   top_right_corner |-> (~is_active.N /\ ~is_active.E),
   bottom_left_corner |-> (~is_active.S /\ ~is_active.W),
   bottom_right_corner |-> (~is_active.S /\ ~is_active.E),
   alone |-> (~is_active.N /\ ~is_active.S /\ ~is_active.E /\ ~is_active.W)]

\* SvgRoundedDrawer.drawrect: the adjacency predicates (svg.py 520-530)
SvgRoundedDrawer_preds(is_active) ==
  [left_block |-> (~is_active.W /\ is_active.E /\ ~is_active.N /\ ~is_active.S),
   right_block |-> (~is_active.E /\ is_active.W /\ ~is_active.N /\ ~is_active.S),
   top_block |-> (~is_active.N /\ is_active.S /\ ~is_active.E /\ ~is_active.W),
   bottom_block |-> (~is_active.S /\ is_active.N /\ ~is_active.E /\ ~is_active.W),
   top_left_corner |-> (~is_active.N /\ ~is_active.W),
   top_right_corner |-> (~is_active.N /\ ~is_active.E),
   bottom_left_corner |-> (~is_active.S /\ ~is_active.W),
   bottom_right_corner |-> (~is_active.S /\ ~is_active.E),
   alone |-> (~is_active.N /\ ~is_active.S /\ ~is_active.E /\ ~is_active.W)]

\* SvgRoundedDrawer.drawrect: the element built for each variant (svg.py 532-601)
SvgRoundedDrawer_el(self, box, variant) ==
  LET h == (units(self.box_half) - self.box_delta)
      radius == units(self.box_half)
      x0 == units(coords(self, box).x0)
      y0 == units(coords(self, box).y0)
      x1 == units(coords(self, box).x1)
      y1 == units(coords(self, box).y1)
      xh == units(coords(self, box).xh)
      yh == units(coords(self, box).yh)
      corner_r == units(self.box_size)
  IN  CASE variant = "base" -> [tag |-> "path", d |-> <<Lit("M"), Num(x0), Lit(","), Num(y0), Lit("H"), Num(x1), Lit("V"), Num(y1), Lit("H"), Num(x0), Lit("z")>>, fill |-> self.fill_color]
        [] variant = "top_left_corner" -> [tag |-> "path", d |-> <<Lit("M"), Num(x0), Lit(","), Num(yh), Lit("A"), Num(corner_r), Lit(","), Num(corner_r), Lit(",0,0,1"), Num(x1), Lit(","), Num(y0), Lit("V"), Num(y1), Lit("H"), Num(x0), Lit("Z")>>, fill |-> self.fill_color]
        [] variant = "top_right_corner" -> [tag |-> "path", d |-> <<Lit("M"), Num(x0), Lit(","), Num(y0), Lit("H"), Num(xh), Lit("A"), Num(corner_r), Lit(","), Num(corner_r), Lit(",0,0,1"), Num(x1), Lit(","), Num(y1), Lit("H"), Num(x0), Lit("Z")>>, fill |-> self.fill_color]
        [] variant = "bottom_left_corner" -> [tag |-> "path", d |-> <<Lit("M"), Num(x0), Lit(","), Num(y0), Lit("H"), Num(x1), Lit("V"), Num(y1), Lit("H"), Num(xh), Lit("A"), Num(corner_r), Lit(","), Num(corner_r), Lit(",0,0,1,"), Num(x0), Lit(","), Num(y0), Lit("Z")>>, fill |-> self.fill_color]
        [] variant = "bottom_right_corner" -> [tag |-> "path", d |-> <<Lit("M"), Num(x0), Lit(","), Num(y0), Lit("H"), Num(x1), Lit("V"), Num(yh), Lit("A"), Num(corner_r), Lit(","), Num(corner_r), Lit(",0,0,1,"), Num(xh), Lit(","), Num(y1), Lit("H"), Num(x0), Lit("Z")>>, fill |-> self.fill_color]
        [] variant = "top_block" -> [tag |-> "path", d |-> <<Lit("M"), Num(x0), Lit(","), Num(yh), Lit("A"), Num(h), Lit(","), Num(h), Lit(",0,0,1,"), Num(x1), Lit(","), Num(yh), Lit("V"), Num(y1), Lit("H"), Num(x0), Lit("Z")>>, fill |-> self.fill_color]
        [] variant = "bottom_block" -> [tag |-> "path", d |-> <<Lit("M"), Num(x0), Lit(","), Num(y0), Lit("H"), Num(x1), Lit("V"), Num(yh), Lit("A"), Num(h), Lit(","), Num(h), Lit(",0,0,1,"), Num(x0), Lit(","), Num(yh), Lit("Z")>>, fill |-> self.fill_color]
        [] variant = "left_block" -> [tag |-> "path", d |-> <<Lit("M"), Num(xh), Lit(","), Num(y0), Lit("H"), Num(x1), Lit("V"), Num(y1), Lit("H"), Num(xh), Lit("A"), Num(h), Lit(","), Num(h), Lit(",0,0,1,"), Num(xh), Lit(","), Num(y0), Lit("Z")>>, fill |-> self.fill_color]
        [] variant = "right_block" -> [tag |-> "path", d |-> <<Lit("M"), Num(x0), Lit(","), Num(y0), Lit("H"), Num(xh), Lit("A"), Num(h), Lit(","), Num(h), Lit(",0,0,1,"), Num(xh), Lit(","), Num(y1), Lit("H"), Num(x0), Lit("Z")>>, fill |-> self.fill_color]
        [] variant = "alone" -> [tag |-> "circle", cx |-> <<Num(xh)>>, cy |-> <<Num(yh)>>, r |-> <<Num(radius)>>, fill |-> self.fill_color]

\* SvgRoundedDrawer.drawrect: base element, then each true predicate overwrites it in
\* the order of the if statements (svg.py 532-601)
SvgRoundedDrawer_variant(p) ==
  LET el0 == "base"
      el1 == IF p.top_left_corner THEN "top_left_corner" ELSE el0
      el2 == IF p.top_right_corner THEN "top_right_corner" ELSE el1
      el3 == IF p.bottom_left_corner THEN "bottom_left_corner" ELSE el2
      el4 == IF p.bottom_right_corner THEN "bottom_right_corner" ELSE el3
      el5 == IF p.top_block THEN "top_block" ELSE el4
      el6 == IF p.bottom_block THEN "bottom_block" ELSE el5
      el7 == IF p.left_block THEN "left_block" ELSE el6
      el8 == IF p.right_block THEN "right_block" ELSE el7
      el9 == IF p.alone THEN "alone" ELSE el8
  IN  el9

\* SvgRoundedDrawer.drawrect (svg.py 501-603): what the call appends to img._img
SvgRoundedDrawer_drawrect(self, box, is_active) ==
  IF ~bool(is_active)
  THEN <<>>
  ELSE <<SvgRoundedDrawer_el(self, box, SvgRoundedDrawer_variant(SvgRoundedDrawer_preds(is_active)))>>

\* SvgRounded2Drawer.drawrect: the adjacency predicates (svg.py 633-643)
SvgRounded2Drawer_preds(is_active) ==
  [left_block |-> (~is_active.W /\ is_active.E /\ ~is_active.N /\ ~is_active.S),
   right_block |-> (~is_active.E /\ is_active.W /\ ~is_active.N /\ ~is_active.S),
   top_block |-> (~is_active.N /\ is_active.S /\ ~is_active.E /\ ~is_active.W),
   bottom_block |-> (~is_active.S /\ is_active.N /\ ~is_active.E /\ ~is_active.W),
   top_left_corner |-> (~is_active.N /\ ~is_active.W),
   top_right_corner |-> (~is_active.N /\ ~is_active.E),
   bottom_left_corner |-> (~is_active.S /\ ~is_active.W),
   bottom_right_corner |-> (~is_active.S /\ ~is_active.E),
   alone |-> (~is_active.N /\ ~is_active.S /\ ~is_active.E /\ ~is_active.W)]

\* SvgRounded2Drawer.drawrect: the element built for each variant (svg.py 645-717)
SvgRounded2Drawer_el(self, box, variant) ==
  LET h == (units(self.box_half) - self.box_delta)
      x0 == units(coords(self, box).x0)
      y0 == units(coords(self, box).y0)
      x1 == units(coords(self, box).x1)
      y1 == units(coords(self, box).y1)
      xh == units(coords(self, box).xh)
      yh == units(coords(self, box).yh)
      corner_r == units(self.box_size)
  IN  CASE variant = "base" -> [tag |-> "path", d |-> <<Lit("M"), Num(x0), Lit(","), Num(y0), Lit("H"), Num(x1), Lit("V"), Num(y1), Lit("H"), Num(x0), Lit("z")>>, fill |-> self.fill_color]
        [] variant = "top_left_corner" -> [tag |-> "path", d |-> <<Lit("M"), Num(x0), Lit(","), Num(yh), Lit("A"), Num(corner_r), Lit(","), Num(corner_r), Lit(",0,0,1"), Num(x1), Lit(","), Num(y0), Lit("V"), Num(y1), Lit("H"), Num(x0), Lit("Z")>>, fill |-> self.fill_color]
        [] variant = "top_right_corner" -> [tag |-> "path", d |-> <<Lit("M"), Num(x0), Lit(","), Num(y0), Lit("H"), Num(xh), Lit("A"), Num(corner_r), Lit(","), Num(corner_r), Lit(",0,0,1"), Num(x1), Lit(","), Num(y1), Lit("H"), Num(x0), Lit("Z")>>, fill |-> self.fill_color]
        [] variant = "bottom_left_corner" -> [tag |-> "path", d |-> <<Lit("M"), Num(x0), Lit(","), Num(y0), Lit("H"), Num(x1), Lit("V"), Num(y1), Lit("H"), Num(xh), Lit("A"), Num(corner_r), Lit(","), Num(corner_r), Lit(",0,0,1,"), Num(x0), Lit(","), Num(y0), Lit("Z")>>, fill |-> self.fill_color]
        [] variant = "bottom_right_corner" -> [tag |-> "path", d |-> <<Lit("M"), Num(x0), Lit(","), Num(y0), Lit("H"), Num(x1), Lit("V"), Num(yh), Lit("A"), Num(corner_r), Lit(","), Num(corner_r), Lit(",0,0,1,"), Num(xh), Lit(","), Num(y1), Lit("H"), Num(x0), Lit("Z")>>, fill |-> self.fill_color]
        [] variant = "top_block" -> [tag |-> "path", d |-> <<Lit("M"), Num(x0), Lit(","), Num(yh), Lit("A"), Num(h), Lit(","), Num(h), Lit(",0,0,1,"), Num(x1), Lit(","), Num(yh), Lit("V"), Num(y1), Lit("H"), Num(x0), Lit("Z")>>, fill |-> self.fill_color]
        [] variant = "bottom_block" -> [tag |-> "path", d |-> <<Lit("M"), Num(x0), Lit(","), Num(y0), Lit("H"), Num(x1), Lit("V"), Num(yh), Lit("A"), Num(h), Lit(","), Num(h), Lit(",0,0,1,"), Num(x0), Lit(","), Num(yh), Lit("Z")>>, fill |-> self.fill_color]
        [] variant = "left_block" -> [tag |-> "path", d |-> <<Lit("M"), Num(xh), Lit(","), Num(y0), Lit("H"), Num(x1), Lit("V"), Num(y1), Lit("H"), Num(xh), Lit("A"), Num(h), Lit(","), Num(h), Lit(",0,0,1,"), Num(xh), Lit(","), Num(y0), Lit("Z")>>, fill |-> self.fill_color]
        [] variant = "right_block" -> [tag |-> "path", d |-> <<Lit("M"), Num(x0), Lit(","), Num(y0), Lit("H"), Num(xh), Lit("A"), Num(h), Lit(","), Num(h), Lit(",0,0,1,"), Num(xh), Lit(","), Num(y1), Lit("H"), Num(x0), Lit("Z")>>, fill |-> self.fill_color]
        [] variant = "alone" -> [tag |-> "rect", x |-> <<Num(x0)>>, y |-> <<Num(y0)>>, width |-> self.unit_size, height |-> self.unit_size, rx |-> <<Lit("5")>>, ry |-> <<Lit("5")>>, fill |-> self.fill_color]

\* SvgRounded2Drawer.drawrect: base element, then each true predicate overwrites it in
\* the order of the if statements (svg.py 645-717)
SvgRounded2Drawer_variant(p) ==
  LET el0 == "base"
      el1 == IF p.top_left_corner THEN "top_left_corner" ELSE el0
      el2 == IF p.top_right_corner THEN "top_right_corner" ELSE el1
      el3 == IF p.bottom_left_corner THEN "bottom_left_corner" ELSE el2
      el4 == IF p.bottom_right_corner THEN "bottom_right_corner" ELSE el3
      el5 == IF p.top_block THEN "top_block" ELSE el4
      el6 == IF p.bottom_block THEN "bottom_block" ELSE el5
      el7 == IF p.left_block THEN "left_block" ELSE el6
      el8 == IF p.right_block THEN "right_block" ELSE el7
      el9 == IF p.alone THEN "alone" ELSE el8
  IN  el9

\* SvgRounded2Drawer.drawrect (svg.py 616-719): what the call appends to img._img
SvgRounded2Drawer_drawrect(self, box, is_active) ==
  IF ~bool(is_active)
  THEN <<>>
  ELSE <<SvgRounded2Drawer_el(self, box, SvgRounded2Drawer_variant(SvgRounded2Drawer_preds(is_active)))>>

\* SvgRounded2InvertedDrawer.drawrect: the adjacency predicates (svg.py 745-750)
SvgRounded2InvertedDrawer_preds(is_active) ==
  [left_block |-> (~is_active.W /\ is_active.E /\ ~is_active.N /\ ~is_active.S),
   right_block |-> (~is_active.E /\ is_active.W /\ ~is_active.N /\ ~is_active.S),
   top_block |-> (~is_active.N /\ is_active.S /\ ~is_active.E /\ ~is_active.W),
   bottom_block |-> (~is_active.S /\ is_active.N /\ ~is_active.E /\ ~is_active.W),
   alone |-> (~is_active.N /\ ~is_active.S /\ ~is_active.E /\ ~is_active.W)]

\* SvgRounded2InvertedDrawer.drawrect: the element built for each variant (svg.py 752-794)
SvgRounded2InvertedDrawer_el(self, box, variant) ==
  LET h == (units(self.box_half) - self.box_delta)
      x0 == units(coords(self, box).x0)
      y0 == units(coords(self, box).y0)
      x1 == units(coords(self, box).x1)
      y1 == units(coords(self, box).y1)
  IN  CASE variant = "base" -> [tag |-> "path", d |-> <<Lit("M"), Num(x0), Lit(","), Num(y0), Lit("H"), Num(x1), Lit("V"), Num(y1), Lit("H"), Num(x0), Lit("z")>>, fill |-> self.fill_color]
        [] variant = "top_block" -> [tag |-> "path", d |-> <<Lit("M"), Num(x0), Lit(","), Num(y0), Lit("A"), Num(h), Lit(","), Num(h), Lit(",0,0,0,"), Num(x1), Lit(","), Num(y0), Lit("V"), Num(y1), Lit("H"), Num(x0), Lit("Z")>>, fill |-> self.fill_color]
        [] variant = "bottom_block" -> [tag |-> "path", d |-> <<Lit("M"), Num(x0), Lit(","), Num(y0), Lit("H"), Num(x1), Lit("V"), Num(y1), Lit("A"), Num(h), Lit(","), Num(h), Lit(",0,0,0,"), Num(x0), Lit(","), Num(y1), Lit("Z")>>, fill |-> self.fill_color]
        [] variant = "left_block" -> [tag |-> "path", d |-> <<Lit("M"), Num(x0), Lit(","), Num(y0), Lit("H"), Num(x1), Lit("V"), Num(y1), Lit("H"), Num(x0), Lit("A"), Num(h), Lit(","), Num(h), Lit(",0,0,0,"), Num(x0), Lit(","), Num(y0), Lit("Z")>>, fill |-> self.fill_color]
        [] variant = "right_block" -> [tag |-> "path", d |-> <<Lit("M"), Num(x0), Lit(","), Num(y0), Lit("H"), Num(x1), Lit("A"), Num(h), Lit(","), Num(h), Lit(",0,0,0,"), Num(x1), Lit(","), Num(y1), Lit("H"), Num(x0), Lit("Z")>>, fill |-> self.fill_color]
        [] variant = "alone" -> [tag |-> "rect", x |-> <<Num(x0)>>, y |-> <<Num(y0)>>, width |-> self.unit_size, height |-> self.unit_size, fill |-> self.fill_color]

\* SvgRounded2InvertedDrawer.drawrect: base element, then each true predicate overwrites it in
\* the order of the if statements (svg.py 752-794)
SvgRounded2InvertedDrawer_variant(p) ==
  LET el0 == "base"
      el1 == IF p.top_block THEN "top_block" ELSE el0
      el2 == IF p.bottom_block THEN "bottom_block" ELSE el1
      el3 == IF p.left_block THEN "left_block" ELSE el2
      el4 == IF p.right_block THEN "right_block" ELSE el3
      el5 == IF p.alone THEN "alone" ELSE el4
  IN  el5

\* SvgRounded2InvertedDrawer.drawrect (svg.py 732-796): what the call appends to img._img
SvgRounded2InvertedDrawer_drawrect(self, box, is_active) ==
  IF ~bool(is_active)
  THEN <<>>
  ELSE <<SvgRounded2InvertedDrawer_el(self, box, SvgRounded2InvertedDrawer_variant(SvgRounded2InvertedDrawer_preds(is_active)))>>

\* SvgRounded2Inverted2Drawer.drawrect: the adjacency predicates (svg.py 826-836)
SvgRounded2Inverted2Drawer_preds(is_active) ==
  [left_block |-> (~is_active.W /\ is_active.E /\ ~is_active.N /\ ~is_active.S),
   right_block |-> (~is_active.E /\ is_active.W /\ ~is_active.N /\ ~is_active.S),
   top_block |-> (~is_active.N /\ is_active.S /\ ~is_active.E /\ ~is_active.W),
   bottom_block |-> (~is_active.S /\ is_active.N /\ ~is_active.E /\ ~is_active.W),
   top_left_corner |-> (~is_active.N /\ ~is_active.W),
   top_right_corner |-> (~is_active.N /\ ~is_active.E),
   bottom_left_corner |-> (~is_active.S /\ ~is_active.W),
   bottom_right_corner |-> (~is_active.S /\ ~is_active.E),
   alone |-> (~is_active.N /\ ~is_active.S /\ ~is_active.E /\ ~is_active.W)]

\* SvgRounded2Inverted2Drawer.drawrect: the element built for each variant (svg.py 838-910)
SvgRounded2Inverted2Drawer_el(self, box, variant) ==
  LET h == (units(self.box_half) - self.box_delta)
      x0 == units(coords(self, box).x0)
      y0 == units(coords(self, box).y0)
      x1 == units(coords(self, box).x1)
      y1 == units(coords(self, box).y1)
      xh == units(coords(self, box).xh)
      yh == units(coords(self, box).yh)
      corner_r == units(self.box_size)
  IN  CASE variant = "base" -> [tag |-> "path", d |-> <<Lit("M"), Num(x0), Lit(","), Num(y0), Lit("H"), Num(x1), Lit("V"), Num(y1), Lit("H"), Num(x0), Lit("z")>>, fill |-> self.fill_color]
        [] variant = "top_left_corner" -> [tag |-> "path", d |-> <<Lit("M"), Num(x0), Lit(","), Num(yh), Lit("A"), Num(corner_r), Lit(","), Num(corner_r), Lit(",0,0,1"), Num(x1), Lit(","), Num(y0), Lit("V"), Num(y1), Lit("H"), Num(x0), Lit("Z")>>, fill |-> self.fill_color]
        [] variant = "top_right_corner" -> [tag |-> "path", d |-> <<Lit("M"), Num(x0), Lit(","), Num(y0), Lit("H"), Num(xh), Lit("A"), Num(corner_r), Lit(","), Num(corner_r), Lit(",0,0,1"), Num(x1), Lit(","), Num(y1), Lit("H"), Num(x0), Lit("Z")>>, fill |-> self.fill_color]
        [] variant = "bottom_left_corner" -> [tag |-> "path", d |-> <<Lit("M"), Num(x0), Lit(","), Num(y0), Lit("H"), Num(x1), Lit("V"), Num(y1), Lit("H"), Num(xh), Lit("A"), Num(corner_r), Lit(","), Num(corner_r), Lit(",0,0,1,"), Num(x0), Lit(","), Num(y0), Lit("Z")>>, fill |-> self.fill_color]
        [] variant = "bottom_right_corner" -> [tag |-> "path", d |-> <<Lit("M"), Num(x0), Lit(","), Num(y0), Lit("H"), Num(x1), Lit("V"), Num(yh), Lit("A"), Num(corner_r), Lit(","), Num(corner_r), Lit(",0,0,1,"), Num(xh), Lit(","), Num(y1), Lit("H"), Num(x0), Lit("Z")>>, fill |-> self.fill_color]
        [] variant = "top_block" -> [tag |-> "path", d |-> <<Lit("M"), Num(x0), Lit(","), Num(y0), Lit("A"), Num(h), Lit(","), Num(h), Lit(",0,0,0,"), Num(x1), Lit(","), Num(y0), Lit("V"), Num(y1), Lit("H"), Num(x0), Lit("Z")>>, fill |-> self.fill_color]
        [] variant = "bottom_block" -> [tag |-> "path", d |-> <<Lit("M"), Num(x0), Lit(","), Num(y0), Lit("H"), Num(x1), Lit("V"), Num(y1), Lit("A"), Num(h), Lit(","), Num(h), Lit(",0,0,0,"), Num(x0), Lit(","), Num(y1), Lit("Z")>>, fill |-> self.fill_color]
        [] variant = "left_block" -> [tag |-> "path", d |-> <<Lit("M"), Num(x0), Lit(","), Num(y0), Lit("H"), Num(x1), Lit("V"), Num(y1), Lit("H"), Num(x0), Lit("A"), Num(h), Lit(","), Num(h), Lit(",0,0,0,"), Num(x0), Lit(","), Num(y0), Lit("Z")>>, fill |-> self.fill_color]
        [] variant = "right_block" -> [tag |-> "path", d |-> <<Lit("M"), Num(x0), Lit(","), Num(y0), Lit("H"), Num(x1), Lit("A"), Num(h), Lit(","), Num(h), Lit(",0,0,0,"), Num(x1), Lit(","), Num(y1), Lit("H"), Num(x0), Lit("Z")>>, fill |-> self.fill_color]
        [] variant = "alone" -> [tag |-> "rect", x |-> <<Num(x0)>>, y |-> <<Num(y0)>>, width |-> self.unit_size, height |-> self.unit_size, rx |-> <<Lit("5")>>, ry |-> <<Lit("5")>>, fill |-> self.fill_color]

\* SvgRounded2Inverted2Drawer.drawrect: base element, then each true predicate overwrites it in
\* the order of the if statements (svg.py 838-910)
SvgRounded2Inverted2Drawer_variant(p) ==
  LET el0 == "base"
      el1 == IF p.top_left_corner THEN "top_left_corner" ELSE el0
      el2 == IF p.top_right_corner THEN "top_right_corner" ELSE el1
      el3 == IF p.bottom_left_corner THEN "bottom_left_corner" ELSE el2
      el4 == IF p.bottom_right_corner THEN "bottom_right_corner" ELSE el3
      el5 == IF p.top_block THEN "top_block" ELSE el4
      el6 == IF p.bottom_block THEN "bottom_block" ELSE el5
      el7 == IF p.left_block THEN "left_block" ELSE el6
      el8 == IF p.right_block THEN "right_block" ELSE el7
      el9 == IF p.alone THEN "alone" ELSE el8
  IN  el9

\* SvgRounded2Inverted2Drawer.drawrect (svg.py 809-912): what the call appends to img._img
SvgRounded2Inverted2Drawer_drawrect(self, box, is_active) ==
  IF ~bool(is_active)
  THEN <<>>
  ELSE <<SvgRounded2Inverted2Drawer_el(self, box, SvgRounded2Inverted2Drawer_variant(SvgRounded2Inverted2Drawer_preds(is_active)))>>

\* SvgSharped2InvertedDrawer.drawrect: the adjacency predicates (svg.py 938-943)
SvgSharped2InvertedDrawer_preds(is_active) ==
  [left_block |-> (~is_active.W /\ is_active.E /\ ~is_active.N /\ ~is_active.S),
   right_block |-> (~is_active.E /\ is_active.W /\ ~is_active.N /\ ~is_active.S),
   top_block |-> (~is_active.N /\ is_active.S /\ ~is_active.E /\ ~is_active.W),
   bottom_block |-> (~is_active.S /\ is_active.N /\ ~is_active.E /\ ~is_active.W),
   alone |-> (~is_active.N /\ ~is_active.S /\ ~is_active.E /\ ~is_active.W)]

\* SvgSharped2InvertedDrawer.drawrect: the element built for each variant (svg.py 945-987)
SvgSharped2InvertedDrawer_el(self, box, variant) ==
  LET x0 == units(coords(self, box).x0)
      y0 == units(coords(self, box).y0)
      x1 == units(coords(self, box).x1)
      y1 == units(coords(self, box).y1)
      xh == units(coords(self, box).xh)
      yh == units(coords(self, box).yh)
  IN  CASE variant = "base" -> [tag |-> "path", d |-> <<Lit("M"), Num(x0), Lit(","), Num(y0), Lit("H"), Num(x1), Lit("V"), Num(y1), Lit("H"), Num(x0), Lit("z")>>, fill |-> self.fill_color]
        [] variant = "top_block" -> [tag |-> "path", d |-> <<Lit("M"), Num(x0), Lit(","), Num(y0), Lit("L"), Num(xh), Lit(","), Num(yh), Lit("L"), Num(x1), Lit(","), Num(y0), Lit("V"), Num(y1), Lit("H"), Num(x0), Lit("Z")>>, fill |-> self.fill_color]
        [] variant = "bottom_block" -> [tag |-> "path", d |-> <<Lit("M"), Num(x0), Lit(","), Num(y0), Lit("H"), Num(x1), Lit("V"), Num(y1), Lit("L"), Num(xh), Lit(","), Num(yh), Lit("L"), Num(x0), Lit(","), Num(y1), Lit("Z")>>, fill |-> self.fill_color]
        [] variant = "left_block" -> [tag |-> "path", d |-> <<Lit("M"), Num(x0), Lit(","), Num(y0), Lit("H"), Num(x1), Lit("V"), Num(y1), Lit("H"), Num(x0), Lit("L"), Num(xh), Lit(","), Num(yh), Lit("L"), Num(x0), Lit(","), Num(y0), Lit("Z")>>, fill |-> self.fill_color]
        [] variant = "right_block" -> [tag |-> "path", d |-> <<Lit("M"), Num(x0), Lit(","), Num(y0), Lit("H"), Num(x1), Lit("L"), Num(xh), Lit(","), Num(yh), Lit("L"), Num(x1), Lit(","), Num(y1), Lit("H"), Num(x0), Lit("Z")>>, fill |-> self.fill_color]
        [] variant = "alone" -> [tag |-> "rect", x |-> <<Num(x0)>>, y |-> <<Num(y0)>>, width |-> self.unit_size, height |-> self.unit_size, fill |-> self.fill_color]

\* SvgSharped2InvertedDrawer.drawrect: base element, then each true predicate overwrites it in
\* the order of the if statements (svg.py 945-987)
SvgSharped2InvertedDrawer_variant(p) ==
  LET el0 == "base"
      el1 == IF p.top_block THEN "top_block" ELSE el0
      el2 == IF p.bottom_block THEN "bottom_block" ELSE el1
      el3 == IF p.left_block THEN "left_block" ELSE el2
      el4 == IF p.right_block THEN "right_block" ELSE el3
      el5 == IF p.alone THEN "alone" ELSE el4
  IN  el5

\* SvgSharped2InvertedDrawer.drawrect (svg.py 925-989): what the call appends to img._img
SvgSharped2InvertedDrawer_drawrect(self, box, is_active) ==
  IF ~bool(is_active)
  THEN <<>>
  ELSE <<SvgSharped2InvertedDrawer_el(self, box, SvgSharped2InvertedDrawer_variant(SvgSharped2InvertedDrawer_preds(is_active)))>>

\* SvgSharped2Inverted2Drawer.drawrect: the adjacency predicates (svg.py 1018-1028)
SvgSharped2Inverted2Drawer_preds(is_active) ==
  [left_block |-> (~is_active.W /\ is_active.E /\ ~is_active.N /\ ~is_active.S),
   right_block |-> (~is_active.E /\ is_active.W /\ ~is_active.N /\ ~is_active.S),
   top_block |-> (~is_active.N /\ is_active.S /\ ~is_active.E /\ ~is_active.W),
   bottom_block |-> (~is_active.S /\ is_active.N /\ ~is_active.E /\ ~is_active.W),
   alone |-> (~is_active.N /\ ~is_active.S /\ ~is_active.E /\ ~is_active.W),
   top_left_corner |-> (~is_active.N /\ ~is_active.W),
   top_right_corner |-> (~is_active.N /\ ~is_active.E),
   bottom_left_corner |-> (~is_active.S /\ ~is_active.W),
   bottom_right_corner |-> (~is_active.S /\ ~is_active.E)]

\* SvgSharped2Inverted2Drawer.drawrect: the element built for each variant (svg.py 1030-1102)
SvgSharped2Inverted2Drawer_el(self, box, variant) ==
  LET h == (units(self.box_half) - self.box_delta)
      corner_r == units(self.box_size)
      x0 == units(coords(self, box).x0)
      y0 == units(coords(self, box).y0)
      x1 == units(coords(self, box).x1)
      y1 == units(coords(self, box).y1)
      xh == units(coords(self, box).xh)
      yh == units(coords(self, box).yh)
  IN  CASE variant = "base" -> [tag |-> "path", d |-> <<Lit("M"), Num(x0), Lit(","), Num(y0), Lit("H"), Num(x1), Lit("V"), Num(y1), Lit("H"), Num(x0), Lit("z")>>, fill |-> self.fill_color]
        [] variant = "top_left_corner" -> [tag |-> "path", d |-> <<Lit("M"), Num(x0), Lit(","), Num(yh), Lit("A"), Num(corner_r), Lit(","), Num(corner_r), Lit(",0,0,1"), Num(x1), Lit(","), Num(y0), Lit("V"), Num(y1), Lit("H"), Num(x0), Lit("Z")>>, fill |-> self.fill_color]
        [] variant = "top_right_corner" -> [tag |-> "path", d |-> <<Lit("M"), Num(x0), Lit(","), Num(y0), Lit("H"), Num(xh), Lit("A"), Num(corner_r), Lit(","), Num(corner_r), Lit(",0,0,1"), Num(x1), Lit(","), Num(y1), Lit("H"), Num(x0), Lit("Z")>>, fill |-> self.fill_color]
        [] variant = "bottom_left_corner" -> [tag |-> "path", d |-> <<Lit("M"), Num(x0), Lit(","), Num(y0), Lit("H"), Num(x1), Lit("V"), Num(y1), Lit("H"), Num(xh), Lit("A"), Num(corner_r), Lit(","), Num(corner_r), Lit(",0,0,1,"), Num(x0), Lit(","), Num(y0), Lit("Z")>>, fill |-> self.fill_color]
        [] variant = "bottom_right_corner" -> [tag |-> "path", d |-> <<Lit("M"), Num(x0), Lit(","), Num(y0), Lit("H"), Num(x1), Lit("V"), Num(yh), Lit("A"), Num(corner_r), Lit(","), Num(corner_r), Lit(",0,0,1,"), Num(xh), Lit(","), Num(y1), Lit("H"), Num(x0), Lit("Z")>>, fill |-> self.fill_color]
        [] variant = "top_block" -> [tag |-> "path", d |-> <<Lit("M"), Num(x0), Lit(","), Num(y0), Lit("L"), Num(xh), Lit(","), Num(yh), Lit("L"), Num(x1), Lit(","), Num(y0), Lit("V"), Num(y1), Lit("H"), Num(x0), Lit("Z")>>, fill |-> self.fill_color]
        [] variant = "bottom_block" -> [tag |-> "path", d |-> <<Lit("M"), Num(x0), Lit(","), Num(y0), Lit("H"), Num(x1), Lit("V"), Num(y1), Lit("L"), Num(xh), Lit(","), Num(yh), Lit("L"), Num(x0), Lit(","), Num(y1), Lit("Z")>>, fill |-> self.fill_color]
        [] variant = "left_block" -> [tag |-> "path", d |-> <<Lit("M"), Num(x0), Lit(","), Num(y0), Lit("H"), Num(x1), Lit("V"), Num(y1), Lit("H"), Num(x0), Lit("L"), Num(xh), Lit(","), Num(yh), Lit("L"), Num(x0), Lit(","), Num(y0), Lit("Z")>>, fill |-> self.fill_color]
        [] variant = "right_block" -> [tag |-> "path", d |-> <<Lit("M"), Num(x0), Lit(","), Num(y0), Lit("H"), Num(x1), Lit("L"), Num(xh), Lit(","), Num(yh), Lit("L"), Num(x1), Lit(","), Num(y1), Lit("H"), Num(x0), Lit("Z")>>, fill |-> self.fill_color]
        [] variant = "alone" -> [tag |-> "rect", x |-> <<Num(x0)>>, y |-> <<Num(y0)>>, width |-> self.unit_size, height |-> self.unit_size, rx |-> <<Lit("5")>>, ry |-> <<Lit("5")>>, fill |-> self.fill_color]

\* SvgSharped2Inverted2Drawer.drawrect: base element, then each true predicate overwrites it in
\* the order of the if statements (svg.py 1030-1102)
SvgSharped2Inverted2Drawer_variant(p) ==
  LET el0 == "base"
      el1 == IF p.top_left_corner THEN "top_left_corner" ELSE el0
      el2 == IF p.top_right_corner THEN "top_right_corner" ELSE el1
      el3 == IF p.bottom_left_corner THEN "bottom_left_corner" ELSE el2
      el4 == IF p.bottom_right_corner THEN "bottom_right_corner" ELSE el3
      el5 == IF p.top_block THEN "top_block" ELSE el4
      el6 == IF p.bottom_block THEN "bottom_block" ELSE el5
      el7 == IF p.left_block THEN "left_block" ELSE el6
      el8 == IF p.right_block THEN "right_block" ELSE el7
      el9 == IF p.alone THEN "alone" ELSE el8
  IN  el9

\* SvgSharped2Inverted2Drawer.drawrect (svg.py 1002-1104): what the call appends to img._img
SvgSharped2Inverted2Drawer_drawrect(self, box, is_active) ==
  IF ~bool(is_active)
  THEN <<>>
  ELSE <<SvgSharped2Inverted2Drawer_el(self, box, SvgSharped2Inverted2Drawer_variant(SvgSharped2Inverted2Drawer_preds(is_active)))>>

\* SvgSomeHeartDrawer.drawrect: the adjacency predicates (svg.py 1134-1139)
SvgSomeHeartDrawer_preds(is_active) ==
  [left_block |-> (~is_active.W /\ is_active.E /\ ~is_active.N /\ ~is_active.S),
   right_block |-> (~is_active.E /\ is_active.W /\ ~is_active.N /\ ~is_active.S),
   top_block |-> (~is_active.N /\ is_active.S /\ ~is_active.E /\ ~is_active.W),
   bottom_block |-> (~is_active.S /\ is_active.N /\ ~is_active.E /\ ~is_active.W),
   alone |-> (~is_active.N /\ ~is_active.S /\ ~is_active.E /\ ~is_active.W)]

\* SvgSomeHeartDrawer.drawrect: the element built for each variant (svg.py 1141-1182)
SvgSomeHeartDrawer_el(self, box, variant) ==
  LET h == (units(self.box_half) - self.box_delta)
      radius == units(self.box_half)
      x0 == units(coords(self, box).x0)
      xh == units(coords(self, box).xh)
      y0 == units(coords(self, box).y0)
      y1 == units(coords(self, box).y1)
      yh == units(coords(self, box).yh)
      x1 == units(coords(self, box).x1)
  IN  CASE variant = "base" -> [tag |-> "path", d |-> <<Lit("M"), Num(x0), Lit(","), Num(y0), Lit("H"), Num(x1), Lit("V"), Num(y1), Lit("H"), Num(x0), Lit("z")>>, fill |-> self.fill_color]
        [] variant = "top_block" -> [tag |-> "path", d |-> <<Lit("M"), Num(x0), Lit(","), Num(yh), Lit("A"), Num(h), Lit(","), Num(h), Lit(",0,0,1,"), Num(x1), Lit(","), Num(yh), Lit("V"), Num(y1), Lit("H"), Num(x0), Lit("Z")>>, fill |-> self.fill_color]
        [] variant = "bottom_block" -> [tag |-> "path", d |-> <<Lit("M"), Num(x0), Lit(","), Num(y0), Lit("H"), Num(x1), Lit("V"), Num(yh), Lit("A"), Num(h), Lit(","), Num(h), Lit(",0,0,1,"), Num(x0), Lit(","), Num(yh), Lit("Z")>>, fill |-> self.fill_color]
        [] variant = "left_block" -> [tag |-> "path", d |-> <<Lit("M"), Num(xh), Lit(","), Num(y0), Lit("H"), Num(x1), Lit("V"), Num(y1), Lit("H"), Num(xh), Lit("A"), Num(h), Lit(","), Num(h), Lit(",0,0,1,"), Num(xh), Lit(","), Num(y0), Lit("Z")>>, fill |-> self.fill_color]
        [] variant = "right_block" -> [tag |-> "path", d |-> <<Lit("M"), Num(x0), Lit(","), Num(y0), Lit("H"), Num(xh), Lit("A"), Num(h), Lit(","), Num(h), Lit(",0,0,1,"), Num(xh), Lit(","), Num(y1), Lit("H"), Num(x0), Lit("Z")>>, fill |-> self.fill_color]
        [] variant = "alone" -> [tag |-> "circle", cx |-> <<Num(xh)>>, cy |-> <<Num(yh)>>, r |-> <<Num(radius)>>, fill |-> self.fill_color]

\* SvgSomeHeartDrawer.drawrect: base element, then each true predicate overwrites it in
\* the order of the if statements (svg.py 1141-1182)
SvgSomeHeartDrawer_variant(p) ==
  LET el0 == "base"
      el1 == IF p.top_block THEN "top_block" ELSE el0
      el2 == IF p.bottom_block THEN "bottom_block" ELSE el1
      el3 == IF p.left_block THEN "left_block" ELSE el2
      el4 == IF p.right_block THEN "right_block" ELSE el3
      el5 == IF p.alone THEN "alone" ELSE el4
  IN  el5

\* SvgSomeHeartDrawer.drawrect (svg.py 1117-1184): what the call appends to img._img
SvgSomeHeartDrawer_drawrect(self, box, is_active) ==
  IF ~bool(is_active)
  THEN <<>>
  ELSE <<SvgSomeHeartDrawer_el(self, box, SvgSomeHeartDrawer_variant(SvgSomeHeartDrawer_preds(is_active)))>>

\* SvgSharpedDrawer.drawrect: the adjacency predicates (svg.py 1210-1213)
SvgSharpedDrawer_preds(is_active) ==
  [left_block |-> (~is_active.W /\ is_active.E /\ ~is_active.N /\ ~is_active.S),
   right_block |-> (~is_active.E /\ is_active.W /\ ~is_active.N /\ ~is_active.S),
   top_block |-> (~is_active.N /\ is_active.S /\ ~is_active.E /\ ~is_active.W),
   bottom_block |-> (~is_active.S /\ is_active.N /\ ~is_active.E /\ ~is_active.W)]

\* SvgSharpedDrawer.drawrect: the element built for each variant (svg.py 1215-1247)
SvgSharpedDrawer_el(self, box, variant) ==
  LET x0 == units(coords(self, box).x0)
      y0 == units(coords(self, box).y0)
      y1 == units(coords(self, box).y1)
      x1 == units(coords(self, box).x1)
      xh == units(coords(self, box).xh)
      yh == units(coords(self, box).yh)
  IN  CASE variant = "base" -> [tag |-> "path", d |-> <<Lit("M"), Num(x0), Lit(","), Num(y0), Lit("H"), Num(x1), Lit("V"), Num(y1), Lit("H"), Num(x0), Lit("z")>>, fill |-> self.fill_color]
        [] variant = "top_block" -> [tag |-> "path", d |-> <<Lit("M"), Num(x0), Lit(","), Num(yh), Lit("L"), Num(x1), Lit(","), Num(y0), Lit("V"), Num(y1), Lit("H"), Num(x0), Lit("Z")>>, fill |-> self.fill_color]
        [] variant = "bottom_block" -> [tag |-> "path", d |-> <<Lit("M"), Num(x0), Lit(","), Num(y0), Lit("H"), Num(x1), Lit("V"), Num(yh), Lit("L"), Num(x0), Lit(","), Num(y1), Lit("Z")>>, fill |-> self.fill_color]
        [] variant = "left_block" -> [tag |-> "path", d |-> <<Lit("M"), Num(x0), Lit(","), Num(y0), Lit("H"), Num(x1), Lit("V"), Num(y1), Lit("H"), Num(xh), Lit("L"), Num(xh), Num(y0), Lit("Z")>>, fill |-> self.fill_color]
        [] variant = "right_block" -> [tag |-> "path", d |-> <<Lit("M"), Num(x0), Lit(","), Num(y0), Lit("H"), Num(xh), Lit("L"), Num(x1), Lit(","), Num(y1), Lit("H"), Num(x0), Lit("Z")>>, fill |-> self.fill_color]

\* (mutant of SvgSharpedDrawer_variant: the element built first is the
\* left-block shape)
SvgSharpedDrawer_variant_left_first(p) ==
  LET el0 == "left_block"
      el1 == IF p.top_block THEN "top_block" ELSE el0
      el2 == IF p.bottom_block THEN "bottom_block" ELSE el1
      el3 == IF p.left_block THEN "left_block" ELSE el2
      el4 == IF p.right_block THEN "right_block" ELSE el3
  IN  el4

\* SvgSharpedDrawer.drawrect: base element, then each true predicate overwrites it in
\* the order of the if statements (svg.py 1215-1247)
SvgSharpedDrawer_variant(p) ==
  LET el0 == "base"
      el1 == IF p.top_block THEN "top_block" ELSE el0
      el2 == IF p.bottom_block THEN "bottom_block" ELSE el1
      el3 == IF p.left_block THEN "left_block" ELSE el2
      el4 == IF p.right_block THEN "right_block" ELSE el3
  IN  el4

\* SvgSharpedDrawer.drawrect (svg.py 1197-1249): what the call appends to img._img
SvgSharpedDrawer_drawrect(self, box, is_active) ==
  IF ~bool(is_active)
  THEN <<>>
  ELSE <<SvgSharpedDrawer_el(self, box, SvgSharpedDrawer_variant(SvgSharpedDrawer_preds(is_active)))>>

\* SvgSharpedRoundedDrawer.drawrect: the adjacency predicates (svg.py 1277-1287)
SvgSharpedRoundedDrawer_preds(is_active) ==
  [left_block |-> (~is_active.W /\ is_active.E /\ ~is_active.N /\ ~is_active.S),
   right_block |-> (~is_active.E /\ is_active.W /\ ~is_active.N /\ ~is_active.S),
   top_block |-> (~is_active.N /\ is_active.S /\ ~is_active.E /\ ~is_active.W),
   bottom_block |-> (~is_active.S /\ is_active.N /\ ~is_active.E /\ ~is_active.W),
   top_left_corner |-> (~is_active.N /\ ~is_active.W),
   top_right_corner |-> (~is_active.N /\ ~is_active.E),
   bottom_left_corner |-> (~is_active.S /\ ~is_active.W),
   bottom_right_corner |-> (~is_active.S /\ ~is_active.E),
   alone |-> (~is_active.N /\ ~is_active.S /\ ~is_active.E /\ ~is_active.W)]

\* SvgSharpedRoundedDrawer.drawrect: the element built for each variant (svg.py 1289-1361)
SvgSharpedRoundedDrawer_el(self, box, variant) ==
  LET x0 == units(coords(self, box).x0)
      y0 == units(coords(self, box).y0)
      y1 == units(coords(self, box).y1)
      x1 == units(coords(self, box).x1)
      xh == units(coords(self, box).xh)
      yh == units(coords(self, box).yh)
      corner_r == units(self.box_size)
  IN  CASE variant = "base" -> [tag |-> "path", d |-> <<Lit("M"), Num(x0), Lit(","), Num(y0), Lit("H"), Num(x1), Lit("V"), Num(y1), Lit("H"), Num(x0), Lit("z")>>, fill |-> self.fill_color]
        [] variant = "top_left_corner" -> [tag |-> "path", d |-> <<Lit("M"), Num(x0), Lit(","), Num(yh), Lit("A"), Num(corner_r), Lit(","), Num(corner_r), Lit(",0,0,1"), Num(x1), Lit(","), Num(y0), Lit("V"), Num(y1), Lit("H"), Num(x0), Lit("Z")>>, fill |-> self.fill_color]
        [] variant = "top_right_corner" -> [tag |-> "path", d |-> <<Lit("M"), Num(x0), Lit(","), Num(y0), Lit("H"), Num(xh), Lit("A"), Num(corner_r), Lit(","), Num(corner_r), Lit(",0,0,1"), Num(x1), Lit(","), Num(y1), Lit("H"), Num(x0), Lit("Z")>>, fill |-> self.fill_color]
        [] variant = "bottom_left_corner" -> [tag |-> "path", d |-> <<Lit("M"), Num(x0), Lit(","), Num(y0), Lit("H"), Num(x1), Lit("V"), Num(y1), Lit("H"), Num(x1), Lit("A"), Num(corner_r), Lit(","), Num(corner_r), Lit(",0,0,1,"), Num(x0), Lit(","), Num(y0), Lit("Z")>>, fill |-> self.fill_color]
        [] variant = "bottom_right_corner" -> [tag |-> "path", d |-> <<Lit("M"), Num(x0), Lit(","), Num(y0), Lit("H"), Num(x1), Lit("V"), Num(yh), Lit("A"), Num(corner_r), Lit(","), Num(corner_r), Lit(",0,0,1,"), Num(xh), Lit(","), Num(y1), Lit("H"), Num(x0), Lit("Z")>>, fill |-> self.fill_color]
        [] variant = "top_block" -> [tag |-> "path", d |-> <<Lit("M"), Num(x0), Lit(","), Num(yh), Lit("L"), Num(x1), Lit(","), Num(y0), Lit("V"), Num(y1), Lit("H"), Num(x0), Lit("Z")>>, fill |-> self.fill_color]
        [] variant = "bottom_block" -> [tag |-> "path", d |-> <<Lit("M"), Num(x0), Lit(","), Num(y0), Lit("H"), Num(x1), Lit("V"), Num(yh), Lit("L"), Num(x0), Lit(","), Num(y1), Lit("Z")>>, fill |-> self.fill_color]
        [] variant = "left_block" -> [tag |-> "path", d |-> <<Lit("M"), Num(x0), Lit(","), Num(y0), Lit("H"), Num(x1), Lit("V"), Num(y1), Lit("H"), Num(xh), Lit("L"), Num(x0), Lit(","), Num(y0), Lit("Z")>>, fill |-> self.fill_color]
        [] variant = "right_block" -> [tag |-> "path", d |-> <<Lit("M"), Num(x0), Lit(","), Num(y0), Lit("H"), Num(xh), Lit("L"), Num(x1), Lit(","), Num(y1), Lit("H"), Num(x0), Lit("Z")>>, fill |-> self.fill_color]
        [] variant = "alone" -> [tag |-> "rect", x |-> <<Num(x0)>>, y |-> <<Num(y0)>>, width |-> self.unit_size, height |-> self.unit_size, rx |-> <<Lit("5")>>, ry |-> <<Lit("5")>>, fill |-> self.fill_color]

\* SvgSharpedRoundedDrawer.drawrect: base element, then each true predicate overwrites it in
\* the order of the if statements (svg.py 1289-1361)
SvgSharpedRoundedDrawer_variant(p) ==
  LET el0 == "base"
      el1 == IF p.top_left_corner THEN "top_left_corner" ELSE el0
      el2 == IF p.top_right_corner THEN "top_right_corner" ELSE el1
      el3 == IF p.bottom_left_corner THEN "bottom_left_corner" ELSE el2
      el4 == IF p.bottom_right_corner THEN "bottom_right_corner" ELSE el3
      el5 == IF p.top_block THEN "top_block" ELSE el4
      el6 == IF p.bottom_block THEN "bottom_block" ELSE el5
      el7 == IF p.left_block THEN "left_block" ELSE el6
      el8 == IF p.right_block THEN "right_block" ELSE el7
      el9 == IF p.alone THEN "alone" ELSE el8
  IN  el9

\* SvgSharpedRoundedDrawer.drawrect (svg.py 1262-1362): what the call appends to img._img
SvgSharpedRoundedDrawer_drawrect(self, box, is_active) ==
  IF ~bool(is_active)
  THEN <<>>
  ELSE <<SvgSharpedRoundedDrawer_el(self, box, SvgSharpedRoundedDrawer_variant(SvgSharpedRoundedDrawer_preds(is_active)))>>

\* SvgSharpedRounded2Drawer.drawrect: the adjacency predicates (svg.py 1393-1403)
SvgSharpedRounded2Drawer_preds(is_active) ==
  [left_block |-> (~is_active.W /\ is_active.E /\ ~is_active.N /\ ~is_active.S),
   right_block |-> (~is_active.E /\ is_active.W /\ ~is_active.N /\ ~is_active.S),
   top_block |-> (~is_active.N /\ is_active.S /\ ~is_active.E /\ ~is_active.W),
   bottom_block |-> (~is_active.S /\ is_active.N /\ ~is_active.E /\ ~is_active.W),
   top_left_corner |-> (~is_active.N /\ ~is_active.W),
   top_right_corner |-> (~is_active.N /\ ~is_active.E),
   bottom_left_corner |-> (~is_active.S /\ ~is_active.W),
   bottom_right_corner |-> (~is_active.S /\ ~is_active.E),
   alone |-> (~is_active.N /\ ~is_active.S /\ ~is_active.E /\ ~is_active.W)]

\* SvgSharpedRounded2Drawer.drawrect: the element built for each variant (svg.py 1405-1474)
SvgSharpedRounded2Drawer_el(self, box, variant) ==
  LET h == (units(self.box_half) - self.box_delta)
      x0 == units(coords(self, box).x0)
      y0 == units(coords(self, box).y0)
      y1 == units(coords(self, box).y1)
      x1 == units(coords(self, box).x1)
      xr0 == units(coords(self, box).x0)
      xh == units(coords(self, box).xh)
      yh == units(coords(self, box).yh)
      corner_r == units(self.box_size)
  IN  CASE variant = "base" -> [tag |-> "path", d |-> <<Lit("M"), Num(x0), Lit(","), Num(y0), Lit("H"), Num(x1), Lit("V"), Num(y1), Lit("H"), Num(x0), Lit("z")>>, fill |-> self.fill_color]
        [] variant = "top_left_corner" -> [tag |-> "path", d |-> <<Lit("M"), Num(x0), Lit(","), Num(yh), Lit("A"), Num(corner_r), Lit(","), Num(corner_r), Lit(",0,0,1"), Num(x1), Lit(","), Num(y0), Lit("V"), Num(y1), Lit("H"), Num(x0), Lit("Z")>>, fill |-> self.fill_color]
        [] variant = "top_right_corner" -> [tag |-> "path", d |-> <<Lit("M"), Num(x0), Lit(","), Num(y0), Lit("H"), Num(xh), Lit("A"), Num(corner_r), Lit(","), Num(corner_r), Lit(",0,0,1"), Num(x1), Lit(","), Num(y1), Lit("H"), Num(x0), Lit("Z")>>, fill |-> self.fill_color]
        [] variant = "bottom_left_corner" -> [tag |-> "path", d |-> <<Lit("M"), Num(x0), Lit(","), Num(y0), Lit("H"), Num(x1), Lit("V"), Num(y1), Lit("H"), Num(xh), Lit("A"), Num(corner_r), Lit(","), Num(corner_r), Lit(",0,0,1,"), Num(xr0), Lit(","), Num(y0), Lit("Z")>>, fill |-> self.fill_color]
        [] variant = "bottom_right_corner" -> [tag |-> "path", d |-> <<Lit("M"), Num(x0), Lit(","), Num(y0), Lit("H"), Num(x1), Lit("V"), Num(yh), Lit("A"), Num(corner_r), Lit(","), Num(corner_r), Lit(",0,0,1,"), Num(xh), Lit(","), Num(y1), Lit("H"), Num(x0), Lit("Z")>>, fill |-> self.fill_color]
        [] variant = "top_block" -> [tag |-> "path", d |-> <<Lit("M"), Num(x1), Lit(","), Num(y1), Lit("H"), Num(x0), Lit("C"), Num(x0), Lit(","), Num(y0), Lit(","), Num(xh), Lit(","), Num(yh), Lit(","), Num(x0), Lit(","), Num(y0), Lit("C"), Num(x0), Lit(","), Num(y0), Lit(","), Num(x1), Lit(","), Num(y0), Lit(","), Num(x1), Lit(","), Num(y1), Lit("Z")>>, fill |-> self.fill_color]
        [] variant = "bottom_block" -> [tag |-> "path", d |-> <<Lit("M"), Num(x0), Lit(","), Num(y0), Lit("H"), Num(x1), Lit("C"), Num(x1), Lit(","), Num(y1), Lit(","), Num(xh), Lit(","), Num(yh), Lit(","), Num(x1), Lit(","), Num(y1), Lit("C"), Num(x1), Lit(","), Num(y1), Lit(","), Num(x0), Lit(","), Num(y1), Lit(","), Num(x0), Lit(","), Num(y0), Lit("Z")>>, fill |-> self.fill_color]
        [] variant = "left_block" -> [tag |-> "path", d |-> <<Lit("M"), Num(x1), Lit(","), Num(y0), Lit("V"), Num(y1), Lit("C"), Num(x0), Lit(","), Num(y1), Lit(","), Num(xh), Lit(","), Num(yh), Lit(","), Num(x0), Lit(","), Num(y1), Lit("C"), Num(x0), Lit(","), Num(y1), Lit(","), Num(x0), Lit(","), Num(y0), Lit(","), Num(x1), Lit(","), Num(y0), Lit("Z")>>, fill |-> self.fill_color]
        [] variant = "right_block" -> [tag |-> "path", d |-> <<Lit("M"), Num(x0), Lit(","), Num(y1), Lit("V"), Num(y0), Lit("C"), Num(x0), Lit(","), Num(y0), Lit(","), Num(xh), Lit(","), Num(yh), Lit(","), Num(x1), Lit(","), Num(y0), Lit("C"), Num(x1), Lit(","), Num(y0), Lit(","), Num(x1), Lit(","), Num(y1), Lit(","), Num(x0), Lit(","), Num(y1), Lit("Z")>>, fill |-> self.fill_color]
        [] variant = "alone" -> [tag |-> "circle", cx |-> <<Num(xh)>>, cy |-> <<Num(yh)>>, r |-> <<Num(h)>>, fill |-> self.fill_color]

\* SvgSharpedRounded2Drawer.drawrect: base element, then each true predicate overwrites it in
\* the order of the if statements (svg.py 1405-1474)
SvgSharpedRounded2Drawer_variant(p) ==
  LET el0 == "base"
      el1 == IF p.top_left_corner THEN "top_left_corner" ELSE el0
      el2 == IF p.top_right_corner THEN "top_right_corner" ELSE el1
      el3 == IF p.bottom_left_corner THEN "bottom_left_corner" ELSE el2
      el4 == IF p.bottom_right_corner THEN "bottom_right_corner" ELSE el3
      el5 == IF p.top_block THEN "top_block" ELSE el4
      el6 == IF p.bottom_block THEN "bottom_block" ELSE el5
      el7 == IF p.left_block THEN "left_block" ELSE el6
      el8 == IF p.right_block THEN "right_block" ELSE el7
      el9 == IF p.alone THEN "alone" ELSE el8
  IN  el9

\* SvgSharpedRounded2Drawer.drawrect (svg.py 1375-1475): what the call appends to img._img
SvgSharpedRounded2Drawer_drawrect(self, box, is_active) ==
  IF ~bool(is_active)
  THEN <<>>
  ELSE <<SvgSharpedRounded2Drawer_el(self, box, SvgSharpedRounded2Drawer_variant(SvgSharpedRounded2Drawer_preds(is_active)))>>

\* SvgSharped2Drawer.drawrect: the adjacency predicates (svg.py 1501-1504)
SvgSharped2Drawer_preds(is_active) ==
  [left_block |-> (~is_active.W /\ is_active.E /\ ~is_active.N /\ ~is_active.S),
   right_block |-> (~is_active.E /\ is_active.W /\ ~is_active.N /\ ~is_active.S),
   top_block |-> (~is_active.N /\ is_active.S /\ ~is_active.E /\ ~is_active.W),
   bottom_block |-> (~is_active.S /\ is_active.N /\ ~is_active.E /\ ~is_active.W)]

\* SvgSharped2Drawer.drawrect: the element built for each variant (svg.py 1506-1538)
SvgSharped2Drawer_el(self, box, variant) ==
  LET x0 == units(coords(self, box).x0)
      y0 == units(coords(self, box).y0)
      y1 == units(coords(self, box).y1)
      x1 == units(coords(self, box).x1)
      xh == units(coords(self, box).xh)
      yh == units(coords(self, box).yh)
  IN  CASE variant = "base" -> [tag |-> "path", d |-> <<Lit("M"), Num(x0), Lit(","), Num(y0), Lit("H"), Num(x1), Lit("V"), Num(y1), Lit("H"), Num(x0), Lit("z")>>, fill |-> self.fill_color]
        [] variant = "top_block" -> [tag |-> "path", d |-> <<Lit("M"), Num(x0), Lit(","), Num(yh), Lit("L"), Num(xh), Lit(","), Num(y0), Lit("L"), Num(x1), Lit(","), Num(yh), Lit("V"), Num(y1), Lit("H"), Num(x0), Lit("Z")>>, fill |-> self.fill_color]
        [] variant = "bottom_block" -> [tag |-> "path", d |-> <<Lit("M"), Num(x0), Lit(","), Num(y0), Lit("H"), Num(x1), Lit("V"), Num(yh), Lit("L"), Num(xh), Lit(","), Num(y1), Lit("L"), Num(x0), Lit(","), Num(yh), Lit("V"), Num(y0), Lit("Z")>>, fill |-> self.fill_color]
        [] variant = "left_block" -> [tag |-> "path", d |-> <<Lit("M"), Num(xh), Lit(","), Num(y0), Lit("H"), Num(x1), Lit("V"), Num(y1), Lit("H"), Num(xh), Lit("L"), Num(x0), Lit(","), Num(yh), Lit("L"), Num(xh), Lit(","), Num(y0), Lit("Z")>>, fill |-> self.fill_color]
        [] variant = "right_block" -> [tag |-> "path", d |-> <<Lit("M"), Num(x0), Lit(","), Num(y0), Lit("H"), Num(xh), Lit("L"), Num(x1), Lit(","), Num(yh), Lit("L"), Num(xh), Lit(","), Num(y1), Lit("H"), Num(x0), Lit("Z")>>, fill |-> self.fill_color]

\* SvgSharped2Drawer.drawrect: base element, then each true predicate overwrites it in
\* the order of the if statements (svg.py 1506-1538)
SvgSharped2Drawer_variant(p) ==
  LET el0 == "base"
      el1 == IF p.top_block THEN "top_block" ELSE el0
      el2 == IF p.bottom_block THEN "bottom_block" ELSE el1
      el3 == IF p.left_block THEN "left_block" ELSE el2
      el4 == IF p.right_block THEN "right_block" ELSE el3
  IN  el4

\* SvgSharped2Drawer.drawrect (svg.py 1488-1540): what the call appends to img._img
SvgSharped2Drawer_drawrect(self, box, is_active) ==
  IF ~bool(is_active)
  THEN <<>>
  ELSE <<SvgSharped2Drawer_el(self, box, SvgSharped2Drawer_variant(SvgSharped2Drawer_preds(is_active)))>>

\* SvgSharped2DiamondDrawer.drawrect: the adjacency predicates (svg.py 1566-1576)
SvgSharped2DiamondDrawer_preds(is_active) ==
  [left_block |-> (~is_active.W /\ is_active.E /\ ~is_active.N /\ ~is_active.S),
   right_block |-> (~is_active.E /\ is_active.W /\ ~is_active.N /\ ~is_active.S),
   top_block |-> (~is_active.N /\ is_active.S /\ ~is_active.E /\ ~is_active.W),
   bottom_block |-> (~is_active.S /\ is_active.N /\ ~is_active.E /\ ~is_active.W),
   top_left_corner |-> (~is_active.N /\ ~is_active.W),
   top_right_corner |-> (~is_active.N /\ ~is_active.E),
   below_left_corner |-> (~is_active.S /\ ~is_active.W),
   below_right_corner |-> (~is_active.S /\ ~is_active.E),
   alone |-> (~is_active.N /\ ~is_active.S /\ ~is_active.E /\ ~is_active.W)]

\* SvgSharped2DiamondDrawer.drawrect: the element built for each variant (svg.py 1578-1645)
SvgSharped2DiamondDrawer_el(self, box, variant) ==
  LET x0 == units(coords(self, box).x0)
      y0 == units(coords(self, box).y0)
      y1 == units(coords(self, box).y1)
      x1 == units(coords(self, box).x1)
      yh == units(coords(self, box).yh)
      xh == units(coords(self, box).xh)
  IN  CASE variant = "base" -> [tag |-> "path", d |-> <<Lit("M"), Num(x0), Lit(","), Num(y0), Lit("H"), Num(x1), Lit("V"), Num(y1), Lit("H"), Num(x0), Lit("z")>>, fill |-> self.fill_color]
        [] variant = "top_left_corner" -> [tag |-> "path", d |-> <<Lit("M"), Num(x0), Lit(","), Num(yh), Lit("L"), Num(xh), Lit(","), Num(y0), Lit("H"), Num(x1), Lit("V"), Num(y1), Lit("H"), Num(x0), Lit("Z")>>, fill |-> self.fill_color]
        [] variant = "top_right_corner" -> [tag |-> "path", d |-> <<Lit("M"), Num(x0), Lit(","), Num(y0), Lit("H"), Num(xh), Lit("L"), Num(x1), Lit(","), Num(yh), Lit("V"), Num(y1), Lit("H"), Num(x0), Lit("Z")>>, fill |-> self.fill_color]
        [] variant = "below_left_corner" -> [tag |-> "path", d |-> <<Lit("M"), Num(xh), Lit(","), Num(y0), Lit("H"), Num(x1), Lit("V"), Num(y1), Lit("H"), Num(xh), Lit("L"), Num(x0), Lit(","), Num(yh), Lit("V"), Num(y0), Lit("Z")>>, fill |-> self.fill_color]
        [] variant = "below_right_corner" -> [tag |-> "path", d |-> <<Lit("M"), Num(x0), Lit(","), Num(y0), Lit("H"), Num(x1), Lit("V"), Num(yh), Lit("L"), Num(xh), Lit(","), Num(y1), Lit("H"), Num(x0), Lit("Z")>>, fill |-> self.fill_color]
        [] variant = "top_block" -> [tag |-> "path", d |-> <<Lit("M"), Num(x0), Lit(","), Num(yh), Lit("L"), Num(xh), Lit(","), Num(y0), Lit("L"), Num(x1), Lit(","), Num(yh), Lit("V"), Num(y1), Lit("H"), Num(x0), Lit("Z")>>, fill |-> self.fill_color]
        [] variant = "bottom_block" -> [tag |-> "path", d |-> <<Lit("M"), Num(x0), Lit(","), Num(y0), Lit("H"), Num(x1), Lit("V"), Num(yh), Lit("L"), Num(xh), Lit(","), Num(y1), Lit("L"), Num(x0), Lit(","), Num(yh), Lit("V"), Num(y0), Lit("Z")>>, fill |-> self.fill_color]
        [] variant = "left_block" -> [tag |-> "path", d |-> <<Lit("M"), Num(xh), Lit(","), Num(y0), Lit("H"), Num(x1), Lit("V"), Num(y1), Lit("H"), Num(xh), Lit("L"), Num(x0), Lit(","), Num(yh), Lit("L"), Num(xh), Lit(","), Num(y0), Lit("Z")>>, fill |-> self.fill_color]
        [] variant = "right_block" -> [tag |-> "path", d |-> <<Lit("M"), Num(x0), Lit(","), Num(y0), Lit("H"), Num(xh), Lit("L"), Num(x1), Lit(","), Num(yh), Lit("L"), Num(xh), Lit(","), Num(y1), Lit("H"), Num(x0), Lit("Z")>>, fill |-> self.fill_color]
        [] variant = "alone" -> [tag |-> "path", d |-> <<Lit("M"), Num(x0), Lit(","), Num(yh), Lit("L"), Num(xh), Lit(","), Num(y0), Lit("L"), Num(x1), Lit(","), Num(yh), Lit("L"), Num(xh), Lit(","), Num(y1), Lit("Z")>>, fill |-> self.fill_color]

\* (mutant of SvgSharped2DiamondDrawer_variant: the corner predicates are
\* tested after the block predicates)
SvgSharped2DiamondDrawer_variant_corners_after_blocks(p) ==
  LET el0 == "base"
      el1 == IF p.top_block THEN "top_block" ELSE el0
      el2 == IF p.bottom_block THEN "bottom_block" ELSE el1
      el3 == IF p.left_block THEN "left_block" ELSE el2
      el4 == IF p.right_block THEN "right_block" ELSE el3
      el5 == IF p.top_left_corner THEN "top_left_corner" ELSE el4
      el6 == IF p.top_right_corner THEN "top_right_corner" ELSE el5
      el7 == IF p.below_left_corner THEN "below_left_corner" ELSE el6
      el8 == IF p.below_right_corner THEN "below_right_corner" ELSE el7
      el9 == IF p.alone THEN "alone" ELSE el8
  IN  el9

\* SvgSharped2DiamondDrawer.drawrect: base element, then each true predicate overwrites it in
\* the order of the if statements (svg.py 1578-1645)
SvgSharped2DiamondDrawer_variant(p) ==
  LET el0 == "base"
      el1 == IF p.top_left_corner THEN "top_left_corner" ELSE el0
      el2 == IF p.top_right_corner THEN "top_right_corner" ELSE el1
      el3 == IF p.below_left_corner THEN "below_left_corner" ELSE el2
      el4 == IF p.below_right_corner THEN "below_right_corner" ELSE el3
      el5 == IF p.top_block THEN "top_block" ELSE el4
      el6 == IF p.bottom_block THEN "bottom_block" ELSE el5
      el7 == IF p.left_block THEN "left_block" ELSE el6
      el8 == IF p.right_block THEN "right_block" ELSE el7
      el9 == IF p.alone THEN "alone" ELSE el8
  IN  el9

\* SvgSharped2DiamondDrawer.drawrect (svg.py 1553-1646): what the call appends to img._img
SvgSharped2DiamondDrawer_drawrect(self, box, is_active) ==
  IF ~bool(is_active)
  THEN <<>>
  ELSE <<SvgSharped2DiamondDrawer_el(self, box, SvgSharped2DiamondDrawer_variant(SvgSharped2DiamondDrawer_preds(is_active)))>>

\* (mutant of SvgSharped2RoundedDrawer_preds: alone looks at the vertical
\* neighbours only, as in the bar drawers)
SvgSharped2RoundedDrawer_preds_alone_pair(is_active) ==
  [left_block |-> (~is_active.W /\ is_active.E /\ ~is_active.N /\ ~is_active.S),
   right_block |-> (~is_active.E /\ is_active.W /\ ~is_active.N /\ ~is_active.S),
   top_block |-> (~is_active.N /\ is_active.S /\ ~is_active.E /\ ~is_active.W),
   bottom_block |-> (~is_active.S /\ is_active.N /\ ~is_active.E /\ ~is_active.W),
   top_left_corner |-> (~is_active.N /\ ~is_active.W),
   top_right_corner |-> (~is_active.N /\ ~is_active.E),
   bottom_left_corner |-> (~is_active.S /\ ~is_active.W),
   bottom_right_corner |-> (~is_active.S /\ ~is_active.E),
   alone |-> (~is_active.N /\ ~is_active.S)]

\* SvgSharped2RoundedDrawer.drawrect: the adjacency predicates (svg.py 1674-1684)
SvgSharped2RoundedDrawer_preds(is_active) ==
  [left_block |-> (~is_active.W /\ is_active.E /\ ~is_active.N /\ ~is_active.S),
   right_block |-> (~is_active.E /\ is_active.W /\ ~is_active.N /\ ~is_active.S),
   top_block |-> (~is_active.N /\ is_active.S /\ ~is_active.E /\ ~is_active.W),
   bottom_block |-> (~is_active.S /\ is_active.N /\ ~is_active.E /\ ~is_active.W),
   top_left_corner |-> (~is_active.N /\ ~is_active.W),
   top_right_corner |-> (~is_active.N /\ ~is_active.E),
   bottom_left_corner |-> (~is_active.S /\ ~is_active.W),
   bottom_right_corner |-> (~is_active.S /\ ~is_active.E),
   alone |-> (~is_active.N /\ ~is_active.S /\ ~is_active.E /\ ~is_active.W)]

\* SvgSharped2RoundedDrawer.drawrect: the element built for each variant (svg.py 1686-1758)
SvgSharped2RoundedDrawer_el(self, box, variant) ==
  LET x0 == units(coords(self, box).x0)
      y0 == units(coords(self, box).y0)
      y1 == units(coords(self, box).y1)
      x1 == units(coords(self, box).x1)
      yh == units(coords(self, box).yh)
      xh == units(coords(self, box).xh)
      corner_r == units(self.box_size)
  IN  CASE variant = "base" -> [tag |-> "path", d |-> <<Lit("M"), Num(x0), Lit(","), Num(y0), Lit("H"), Num(x1), Lit("V"), Num(y1), Lit("H"), Num(x0), Lit("z")>>, fill |-> self.fill_color]
        [] variant = "top_left_corner" -> [tag |-> "path", d |-> <<Lit("M"), Num(x0), Lit(","), Num(yh), Lit("A"), Num(corner_r), Lit(","), Num(corner_r), Lit(",0,0,1"), Num(x1), Lit(","), Num(y0), Lit("V"), Num(y1), Lit("H"), Num(x0), Lit("Z")>>, fill |-> self.fill_color]
        [] variant = "top_right_corner" -> [tag |-> "path", d |-> <<Lit("M"), Num(x0), Lit(","), Num(y0), Lit("H"), Num(xh), Lit("A"), Num(corner_r), Lit(","), Num(corner_r), Lit(",0,0,1"), Num(x1), Lit(","), Num(y1), Lit("H"), Num(x0), Lit("Z")>>, fill |-> self.fill_color]
        [] variant = "bottom_left_corner" -> [tag |-> "path", d |-> <<Lit("M"), Num(x0), Lit(","), Num(y0), Lit("H"), Num(x1), Lit("V"), Num(y1), Lit("H"), Num(xh), Lit("A"), Num(corner_r), Lit(","), Num(corner_r), Lit(",0,0,1,"), Num(x0), Lit(","), Num(y0), Lit("Z")>>, fill |-> self.fill_color]
        [] variant = "bottom_right_corner" -> [tag |-> "path", d |-> <<Lit("M"), Num(x0), Lit(","), Num(y0), Lit("H"), Num(x1), Lit("V"), Num(yh), Lit("A"), Num(corner_r), Lit(","), Num(corner_r), Lit(",0,0,1,"), Num(xh), Lit(","), Num(y1), Lit("H"), Num(x0), Lit("Z")>>, fill |-> self.fill_color]
        [] variant = "top_block" -> [tag |-> "path", d |-> <<Lit("M"), Num(x0), Lit(","), Num(yh), Lit("L"), Num(xh), Lit(","), Num(y0), Lit("L"), Num(x1), Lit(","), Num(yh), Lit("V"), Num(y1), Lit("H"), Num(x0), Lit("Z")>>, fill |-> self.fill_color]
        [] variant = "bottom_block" -> [tag |-> "path", d |-> <<Lit("M"), Num(x0), Lit(","), Num(y0), Lit("H"), Num(x1), Lit("V"), Num(yh), Lit("L"), Num(xh), Lit(","), Num(y1), Lit("L"), Num(x0), Lit(","), Num(yh), Lit("V"), Num(y0), Lit("Z")>>, fill |-> self.fill_color]
        [] variant = "left_block" -> [tag |-> "path", d |-> <<Lit("M"), Num(xh), Lit(","), Num(y0), Lit("H"), Num(x1), Lit("V"), Num(y1), Lit("H"), Num(xh), Lit("L"), Num(x0), Lit(","), Num(yh), Lit("L"), Num(xh), Lit(","), Num(y0), Lit("Z")>>, fill |-> self.fill_color]
        [] variant = "right_block" -> [tag |-> "path", d |-> <<Lit("M"), Num(x0), Lit(","), Num(y0), Lit("H"), Num(xh), Lit("L"), Num(x1), Lit(","), Num(yh), Lit("L"), Num(xh), Lit(","), Num(y1), Lit("H"), Num(x0), Lit("Z")>>, fill |-> self.fill_color]
        [] variant = "alone" -> [tag |-> "rect", x |-> <<Num(x0)>>, y |-> <<Num(y0)>>, width |-> self.unit_size, height |-> self.unit_size, rx |-> <<Lit("5")>>, ry |-> <<Lit("5")>>, fill |-> self.fill_color]

\* SvgSharped2RoundedDrawer.drawrect: base element, then each true predicate overwrites it in
\* the order of the if statements (svg.py 1686-1758)
SvgSharped2RoundedDrawer_variant(p) ==
  LET el0 == "base"
      el1 == IF p.top_left_corner THEN "top_left_corner" ELSE el0
      el2 == IF p.top_right_corner THEN "top_right_corner" ELSE el1
      el3 == IF p.bottom_left_corner THEN "bottom_left_corner" ELSE el2
      el4 == IF p.bottom_right_corner THEN "bottom_right_corner" ELSE el3
      el5 == IF p.top_block THEN "top_block" ELSE el4
      el6 == IF p.bottom_block THEN "bottom_block" ELSE el5
      el7 == IF p.left_block THEN "left_block" ELSE el6
      el8 == IF p.right_block THEN "right_block" ELSE el7
      el9 == IF p.alone THEN "alone" ELSE el8
  IN  el9

\* SvgSharped2RoundedDrawer.drawrect (svg.py 1659-1760): what the call appends to img._img
SvgSharped2RoundedDrawer_drawrect(self, box, is_active) ==
  IF ~bool(is_active)
  THEN <<>>
  ELSE <<SvgSharped2RoundedDrawer_el(self, box, SvgSharped2RoundedDrawer_variant(SvgSharped2RoundedDrawer_preds(is_active)))>>

\* the classes that set needs_neighbors = True
NeighborClasses ==
  {"SvgVerticalBarsDrawer",
   "SvgVertical2BarsDrawer",
   "SvgHorizontalBarsDrawer",
   "SvgHorizontal2BarsDrawer",
   "SvgRoundedDrawer",
   "SvgRounded2Drawer",
   "SvgRounded2InvertedDrawer",
   "SvgRounded2Inverted2Drawer",
   "SvgSharped2InvertedDrawer",
   "SvgSharped2Inverted2Drawer",
   "SvgSomeHeartDrawer",
   "SvgSharpedDrawer",
   "SvgSharpedRoundedDrawer",
   "SvgSharpedRounded2Drawer",
   "SvgSharped2Drawer",
   "SvgSharped2DiamondDrawer",
   "SvgSharped2RoundedDrawer"}

\* the adjacency predicates of drawrect in the class cls
preds_of(cls, is_active) ==
  CASE cls = "SvgVerticalBarsDrawer" -> SvgVerticalBarsDrawer_preds(is_active)
    [] cls = "SvgVertical2BarsDrawer" -> SvgVertical2BarsDrawer_preds(is_active)
    [] cls = "SvgHorizontalBarsDrawer" -> SvgHorizontalBarsDrawer_preds(is_active)
    [] cls = "SvgHorizontal2BarsDrawer" -> SvgHorizontal2BarsDrawer_preds(is_active)
    [] cls = "SvgRoundedDrawer" -> SvgRoundedDrawer_preds(is_active)
    [] cls = "SvgRounded2Drawer" -> SvgRounded2Drawer_preds(is_active)
    [] cls = "SvgRounded2InvertedDrawer" -> SvgRounded2InvertedDrawer_preds(is_active)
    [] cls = "SvgRounded2Inverted2Drawer" -> SvgRounded2Inverted2Drawer_preds(is_active)
    [] cls = "SvgSharped2InvertedDrawer" -> SvgSharped2InvertedDrawer_preds(is_active)
    [] cls = "SvgSharped2Inverted2Drawer" -> SvgSharped2Inverted2Drawer_preds(is_active)
    [] cls = "SvgSomeHeartDrawer" -> SvgSomeHeartDrawer_preds(is_active)
    [] cls = "SvgSharpedDrawer" -> SvgSharpedDrawer_preds(is_active)
    [] cls = "SvgSharpedRoundedDrawer" -> SvgSharpedRoundedDrawer_preds(is_active)
    [] cls = "SvgSharpedRounded2Drawer" -> SvgSharpedRounded2Drawer_preds(is_active)
    [] cls = "SvgSharped2Drawer" -> SvgSharped2Drawer_preds(is_active)
    [] cls = "SvgSharped2DiamondDrawer" -> SvgSharped2DiamondDrawer_preds(is_active)
    [] cls = "SvgSharped2RoundedDrawer" -> SvgSharped2RoundedDrawer_preds(is_active)

\* the order of overwrites of drawrect in the class cls
variant_of(cls, p) ==
  CASE cls = "SvgVerticalBarsDrawer" -> SvgVerticalBarsDrawer_variant(p)
    [] cls = "SvgVertical2BarsDrawer" -> SvgVertical2BarsDrawer_variant(p)
    [] cls = "SvgHorizontalBarsDrawer" -> SvgHorizontalBarsDrawer_variant(p)
    [] cls = "SvgHorizontal2BarsDrawer" -> SvgHorizontal2BarsDrawer_variant(p)
    [] cls = "SvgRoundedDrawer" -> SvgRoundedDrawer_variant(p)
    [] cls = "SvgRounded2Drawer" -> SvgRounded2Drawer_variant(p)
    [] cls = "SvgRounded2InvertedDrawer" -> SvgRounded2InvertedDrawer_variant(p)
    [] cls = "SvgRounded2Inverted2Drawer" -> SvgRounded2Inverted2Drawer_variant(p)
    [] cls = "SvgSharped2InvertedDrawer" -> SvgSharped2InvertedDrawer_variant(p)
    [] cls = "SvgSharped2Inverted2Drawer" -> SvgSharped2Inverted2Drawer_variant(p)
    [] cls = "SvgSomeHeartDrawer" -> SvgSomeHeartDrawer_variant(p)
    [] cls = "SvgSharpedDrawer" -> SvgSharpedDrawer_variant(p)
    [] cls = "SvgSharpedRoundedDrawer" -> SvgSharpedRoundedDrawer_variant(p)
    [] cls = "SvgSharpedRounded2Drawer" -> SvgSharpedRounded2Drawer_variant(p)
    [] cls = "SvgSharped2Drawer" -> SvgSharped2Drawer_variant(p)
    [] cls = "SvgSharped2DiamondDrawer" -> SvgSharped2DiamondDrawer_variant(p)
    [] cls = "SvgSharped2RoundedDrawer" -> SvgSharped2RoundedDrawer_variant(p)

\* the element drawrect builds for a variant, in the class of self
el_of(self, box, variant) ==
  CASE self.cls = "SvgVerticalBarsDrawer" -> SvgVerticalBarsDrawer_el(self, box, variant)
    [] self.cls = "SvgVertical2BarsDrawer" -> SvgVertical2BarsDrawer_el(self, box, variant)
    [] self.cls = "SvgHorizontalBarsDrawer" -> SvgHorizontalBarsDrawer_el(self, box, variant)
    [] self.cls = "SvgHorizontal2BarsDrawer" -> SvgHorizontal2BarsDrawer_el(self, box, variant)
    [] self.cls = "SvgRoundedDrawer" -> SvgRoundedDrawer_el(self, box, variant)
    [] self.cls = "SvgRounded2Drawer" -> SvgRounded2Drawer_el(self, box, variant)
    [] self.cls = "SvgRounded2InvertedDrawer" -> SvgRounded2InvertedDrawer_el(self, box, variant)
    [] self.cls = "SvgRounded2Inverted2Drawer" -> SvgRounded2Inverted2Drawer_el(self, box, variant)
    [] self.cls = "SvgSharped2InvertedDrawer" -> SvgSharped2InvertedDrawer_el(self, box, variant)
    [] self.cls = "SvgSharped2Inverted2Drawer" -> SvgSharped2Inverted2Drawer_el(self, box, variant)
    [] self.cls = "SvgSomeHeartDrawer" -> SvgSomeHeartDrawer_el(self, box, variant)
    [] self.cls = "SvgSharpedDrawer" -> SvgSharpedDrawer_el(self, box, variant)
    [] self.cls = "SvgSharpedRoundedDrawer" -> SvgSharpedRoundedDrawer_el(self, box, variant)
    [] self.cls = "SvgSharpedRounded2Drawer" -> SvgSharpedRounded2Drawer_el(self, box, variant)
    [] self.cls = "SvgSharped2Drawer" -> SvgSharped2Drawer_el(self, box, variant)
    [] self.cls = "SvgSharped2DiamondDrawer" -> SvgSharped2DiamondDrawer_el(self, box, variant)
    [] self.cls = "SvgSharped2RoundedDrawer" -> SvgSharped2RoundedDrawer_el(self, box, variant)

\* drawrect of a needs_neighbors class: what the call appends to img._img
neighbors_drawrect(self, box, is_active) ==
  CASE self.cls = "SvgVerticalBarsDrawer" -> SvgVerticalBarsDrawer_drawrect(self, box, is_active)
    [] self.cls = "SvgVertical2BarsDrawer" -> SvgVertical2BarsDrawer_drawrect(self, box, is_active)
    [] self.cls = "SvgHorizontalBarsDrawer" -> SvgHorizontalBarsDrawer_drawrect(self, box, is_active)
    [] self.cls = "SvgHorizontal2BarsDrawer" -> SvgHorizontal2BarsDrawer_drawrect(self, box, is_active)
    [] self.cls = "SvgRoundedDrawer" -> SvgRoundedDrawer_drawrect(self, box, is_active)
    [] self.cls = "SvgRounded2Drawer" -> SvgRounded2Drawer_drawrect(self, box, is_active)
    [] self.cls = "SvgRounded2InvertedDrawer" -> SvgRounded2InvertedDrawer_drawrect(self, box, is_active)
    [] self.cls = "SvgRounded2Inverted2Drawer" -> SvgRounded2Inverted2Drawer_drawrect(self, box, is_active)
    [] self.cls = "SvgSharped2InvertedDrawer" -> SvgSharped2InvertedDrawer_drawrect(self, box, is_active)
    [] self.cls = "SvgSharped2Inverted2Drawer" -> SvgSharped2Inverted2Drawer_drawrect(self, box, is_active)
    [] self.cls = "SvgSomeHeartDrawer" -> SvgSomeHeartDrawer_drawrect(self, box, is_active)
    [] self.cls = "SvgSharpedDrawer" -> SvgSharpedDrawer_drawrect(self, box, is_active)
    [] self.cls = "SvgSharpedRoundedDrawer" -> SvgSharpedRoundedDrawer_drawrect(self, box, is_active)
    [] self.cls = "SvgSharpedRounded2Drawer" -> SvgSharpedRounded2Drawer_drawrect(self, box, is_active)
    [] self.cls = "SvgSharped2Drawer" -> SvgSharped2Drawer_drawrect(self, box, is_active)
    [] self.cls = "SvgSharped2DiamondDrawer" -> SvgSharped2DiamondDrawer_drawrect(self, box, is_active)
    [] self.cls = "SvgSharped2RoundedDrawer" -> SvgSharped2RoundedDrawer_drawrect(self, box, is_active)

-----------------------------------------------------------------------------
(* Dispatch and set-up *)

ElementClasses ==
  {"SvgSquareDrawer", "SvgCircleDrawer", "SvgDiamonDrawer", "SvgRandomSquareDrawer"}

PathClasses == {"SvgPathSquareDrawer", "SvgPathCircleDrawer"}

Classes == ElementClasses \cup PathClasses \cup {"SvgBlankDrawer"} \cup NeighborClasses

\* needs_neighbors: False in QRModuleDrawer, True where a class sets it
needs_neighbors(cls) == cls \in NeighborClasses

\* initialize(img), as each class extends BaseSvgQRModuleDrawer.initialize:
\* unit_size / radius are the formatted box size / half box size.  The blank
\* and diamond drawers format unit_size as text (with the unit suffix); no
\* element reads it.
initialize(self, i) ==
  LET b == BaseSvgQRModuleDrawer_initialize(self, i)
  IN  CASE self.cls \in PathClasses -> b
        [] self.cls = "SvgCircleDrawer" ->
             [b EXCEPT !.radius = <<Num(units(b.box_half))>>]
        [] self.cls \in {"SvgBlankDrawer", "SvgDiamonDrawer"} ->
             [b EXCEPT !.unit_size = <<Num(units(b.box_size)), Lit("mm")>>]
        [] OTHER ->
             [b EXCEPT !.unit_size = <<Num(units(b.box_size))>>]

\* drawer.drawrect(box, is_active) in the class of self: what it appends to
\* img._img and what it appends to img._subpaths
drawrect(self, box, is_active, random_rotate) ==
  CASE self.cls \in ElementClasses ->
         [img |-> SvgQRModuleDrawer_drawrect(self, box, is_active, random_rotate),
          subpaths |-> <<>>]
    [] self.cls \in PathClasses ->
         [img |-> <<>>, subpaths |-> SvgPathQRModuleDrawer_drawrect(self, box, is_active)]
    [] self.cls = "SvgBlankDrawer" ->
         [img |-> SvgBlankDrawer_drawrect(self, box, is_active), subpaths |-> <<>>]
    [] self.cls \in NeighborClasses ->
         [img |-> neighbors_drawrect(self, box, is_active), subpaths |-> <<>>]

\* (mutant of append: the new item goes in front)
append_front(list, out) == out \o list

\* list.append, applied to what a drawrect call emits (nothing, or one item)
append(list, out) == IF out = <<>> THEN list ELSE Append(list, out[1])

-----------------------------------------------------------------------------
(* The state machine *)

\* the values of size_ratio followed: 0, 1/RatioDen, ..., 1, 1 + 1/RatioDen
SizeRatios == {(k * Scale) \div RatioDen : k \in 0 .. RatioDen + 1}

\* the keyword arguments of the constructor: none, or an explicit fill colour
Kwargs == {<<>>, [fill_color |-> "red"]}

\* the matrices followed: the centre module and its four orthogonal
\* neighbours are free, all the other modules are active
Centre == <<1, 1>>
Plus == {c \in Cells : (c[1] = 1 /\ c[2] \in 0 .. 2) \/ (c[2] = 1 /\ c[1] \in 0 .. 2)}
Grids == {[c \in Cells |-> IF c \in Plus THEN p[c] ELSE TRUE] : p \in [Plus -> BOOLEAN]}

\* the matrices in which all the modules but the centre are active
FewGrids == {m \in Grids : \A c \in Cells \ {Centre} : m[c]}

\* A drawer built by default (size_ratio = 1, no fill_color) is followed over
\* every matrix of Grids when it is neighbour-aware, and when it is the
\* square drawer (whose rectangles are read back against the matrix); the
\* other drawers are followed over FewGrids.
GridsFor(d) ==
  IF /\ needs_neighbors(d.cls) \/ d.cls = "SvgSquareDrawer"
     /\ d.size_ratio = Decimal(1) /\ d.fill_color = None
  THEN Grids ELSE FewGrids

Init ==
  /\ \E cls \in Classes, size_ratio \in SizeRatios :
       \* an explicit fill_color is followed with the default size_ratio only
       \E kwargs \in IF size_ratio = Decimal(1) THEN Kwargs ELSE {<<>>} :
         drawer = BaseSvgQRModuleDrawer_init(cls, size_ratio, kwargs)
  /\ modules \in GridsFor(drawer)
  /\ next_cell = 0
  /\ passes = 0
  /\ _img = [i \in ImgIds |-> <<>>]
  /\ _subpaths = [i \in ImgIds |-> <<>>]
  /\ random_state \in IF drawer.cls = "SvgRandomSquareDrawer"
                      THEN 0 .. Len(RandOutcomes) - 1 ELSE {0}
  /\ calls = <<>>
  /\ eye_img = None
  /\ eye = <<>>

\* A render pass starts: the drawer is initialized for image i.
Initialize(i) ==
  /\ passes < MaxPasses
  /\ drawer.img = None \/ next_cell = NCells
  /\ drawer' = initialize(drawer, i)
  /\ next_cell' = 0
  /\ passes' = passes + 1
  /\ UNCHANGED <<modules, _img, _subpaths, random_state, calls, eye_img, eye>>

\* (mutant of DrawRect: el first calls the el of SvgQRModuleDrawer, which
\* sets fill_color to the front colour of the image)
DrawRect_calling_base_el ==
  /\ drawer.img # None
  /\ next_cell < NCells
  /\ LET row == next_cell \div GridN
         col == next_cell % GridN
         box == pixel_box(drawer.img, row, col)
         is_active == IF needs_neighbors(drawer.cls)
                      THEN active_with_neighbors(modules, row, col)
                      ELSE active(modules, row, col)
         out == drawrect(drawer, box, is_active, randint(random_state))
     IN  /\ _img' = [_img EXCEPT ![drawer.img] = append(@, out.img)]
         /\ _subpaths' = [_subpaths EXCEPT ![drawer.img] = append(@, out.subpaths)]
         /\ random_state' = IF drawer.cls = "SvgRandomSquareDrawer" /\ out.img # <<>>
                            THEN random_next(random_state) ELSE random_state
         /\ calls' = Append(calls,
              [pass |-> passes, img |-> drawer.img, cell |-> next_cell,
               box |-> box, is_active |-> is_active,
               out |-> out.img \o out.subpaths,
               grew |-> (Len(_img'[drawer.img]) + Len(_subpaths'[drawer.img]))
                        - (Len(_img[drawer.img]) + Len(_subpaths[drawer.img]))])
         /\ drawer' = IF out.img # <<>>
                      THEN [drawer EXCEPT !.fill_color = Images[drawer.img].front_color]
                      ELSE drawer
  /\ next_cell' = next_cell + 1
  /\ UNCHANGED <<modules, passes, eye_img, eye>>

\* The pass calls drawrect on the next module, in row-major order.
DrawRect ==
  /\ drawer.img # None
  /\ next_cell < NCells
  /\ LET row == next_cell \div GridN
         col == next_cell % GridN
         box == pixel_box(drawer.img, row, col)
         is_active == IF needs_neighbors(drawer.cls)
                      THEN active_with_neighbors(modules, row, col)
                      ELSE active(modules, row, col)
         out == drawrect(drawer, box, is_active, randint(random_state))
     IN  /\ _img' = [_img EXCEPT ![drawer.img] = append(@, out.img)]
         /\ _subpaths' = [_subpaths EXCEPT ![drawer.img] = append(@, out.subpaths)]
         /\ random_state' = IF drawer.cls = "SvgRandomSquareDrawer" /\ out.img # <<>>
                            THEN random_next(random_state) ELSE random_state
         /\ calls' = Append(calls,
              [pass |-> passes, img |-> drawer.img, cell |-> next_cell,
               box |-> box, is_active |-> is_active,
               out |-> out.img \o out.subpaths,
               grew |-> (Len(_img'[drawer.img]) + Len(_subpaths'[drawer.img]))
                        - (Len(_img[drawer.img]) + Len(_subpaths[drawer.img]))])
  /\ next_cell' = next_cell + 1
  /\ UNCHANGED <<drawer, modules, passes, eye_img, eye>>

Next ==
  \/ \E i \in ImgIds : Initialize(i)
  \/ DrawRect

Spec == Init /\ [][Next]_vars

-----------------------------------------------------------------------------
(* The region classifier: is_eye_outer and is_eye_center on one image *)

\* img.border ranges over 0 .. EyeMaxBorder, img.box_size over 1 .. EyeMaxBoxSize
EyeMaxBorder == 2
EyeMaxBoxSize == 2

\* the matrix sizes followed: QR versions 1, 2 and 3
EyeGridSizes == {21, 25, 29}

\* the images the classifier is followed on; pixel_size is the side of the
\* image in pixels, border included on both sides
EyeImages ==
  {[box_size |-> bs, border |-> bd, modules_count |-> n, pixel_size |-> (n + 2 * bd) * bs] :
     bs \in 1 .. EyeMaxBoxSize, bd \in 0 .. EyeMaxBorder, n \in EyeGridSizes}

\* a drawer is initialized for one of the images; nothing is rendered
EyeInit ==
  /\ eye_img \in EyeImages
  /\ eye = <<>>
  /\ drawer = BaseSvgQRModuleDrawer_init("SvgSquareDrawer", Decimal(1), <<>>)
  /\ modules = [c \in Cells |-> TRUE]
  /\ next_cell = 0
  /\ passes = 0
  /\ _img = [i \in ImgIds |-> <<>>]
  /\ _subpaths = [i \in ImgIds |-> <<>>]
  /\ random_state = 0
  /\ calls = <<>>

\* is_eye_outer and is_eye_center are called on a pixel position of the
\* image; they change nothing, so one call per behaviour is followed
Classify(row, col) ==
  /\ eye = <<>>
  /\ eye' = <<[row |-> row, col |-> col,
              is_eye_outer |-> is_eye_outer(eye_img, row, col),
              is_eye_center |-> is_eye_center(eye_img, row, col)]>>
  /\ UNCHANGED <<drawer, modules, next_cell, passes, _img, _subpaths, random_state,
                 calls, eye_img>>

EyeNext ==
  \E row, col \in 0 .. eye_img.pixel_size - 1 : Classify(row, col)

EyeSpec == EyeInit /\ [][EyeNext]_vars

-----------------------------------------------------------------------------
(* One drawer rendering one matrix after another *)

\* the four diagonal neighbours of the centre module
Diagonals == {<<0, 0>>, <<0, 2>>, <<2, 0>>, <<2, 2>>}

\* the active modules among the centre and its orthogonal neighbours: the
\* centre alone, the centre with E and S, all but the centre
PlusSets == {{Centre}, {Centre, <<1, 2>>, <<2, 1>>}, Plus \ {Centre}}

\* the matrices followed: each of these, with the four diagonal neighbours
\* of the centre all active or all inactive
MatrixGrids ==
  {[c \in Cells |-> IF c \in Plus THEN c \in on
                    ELSE IF c \in Diagonals THEN diag ELSE TRUE] :
     on \in PlusSets, diag \in BOOLEAN}

\* a neighbour-aware drawer built by default, and the first matrix
MatrixInit ==
  /\ \E cls \in NeighborClasses :
       drawer = BaseSvgQRModuleDrawer_init(cls, Decimal(1), <<>>)
  /\ modules \in MatrixGrids
  /\ next_cell = 0
  /\ passes = 0
  /\ _img = [i \in ImgIds |-> <<>>]
  /\ _subpaths = [i \in ImgIds |-> <<>>]
  /\ random_state = 0
  /\ calls = <<>>
  /\ eye_img = None
  /\ eye = <<>>

\* The pass is over and the caller has another matrix rendered next.
NewMatrix(m) ==
  /\ drawer.img # None
  /\ next_cell = NCells
  /\ passes < MaxPasses
  /\ m # modules
  /\ modules' = m
  /\ UNCHANGED <<drawer, next_cell, passes, _img, _subpaths, random_state, calls,
                 eye_img, eye>>

\* every pass is for the same image, so that the calls can be compared
MatrixNext ==
  \/ Initialize("A")
  \/ DrawRect
  \/ \E m \in MatrixGrids : NewMatrix(m)

MatrixSpec == MatrixInit /\ [][MatrixNext]_vars

-----------------------------------------------------------------------------
(* A pass rendered by two workers *)

\* The modules are shared out in row-major chunks: the first worker has all
\* the modules but the last two, the second worker has the last two.
WorkerIds == {1, 2}
Chunk(w) == IF w = 1 THEN 0 .. NCells - 3 ELSE NCells - 2 .. NCells - 1

\* the modules drawn so far in the pass in progress
Drawn == {calls[k].cell : k \in {j \in DOMAIN calls : calls[j].pass = passes}}

\* a drawer of a deterministic class built by default, and the matrix
OrderInit ==
  /\ \E cls \in Classes \ {"SvgRandomSquareDrawer"} :
       drawer = BaseSvgQRModuleDrawer_init(cls, Decimal(1), <<>>)
  /\ modules \in {m \in MatrixGrids : m[<<0, 0>>]}
  /\ next_cell = 0
  /\ passes = 0
  /\ _img = [i \in ImgIds |-> <<>>]
  /\ _subpaths = [i \in ImgIds |-> <<>>]
  /\ random_state = 0
  /\ calls = <<>>
  /\ eye_img = None
  /\ eye = <<>>

\* Worker w calls drawrect on the next module of its chunk; the call appends
\* to the sink as it does in a sequential pass. next_cell counts the modules
\* drawn in the pass.
Work(w) ==
  /\ drawer.img # None
  /\ passes = MaxPasses
  /\ Chunk(w) \ Drawn # {}
  /\ LET cell == CHOOSE c \in Chunk(w) \ Drawn : \A o \in Chunk(w) \ Drawn : c <= o
         row == cell \div GridN
         col == cell % GridN
         box == pixel_box(drawer.img, row, col)
         is_active == IF needs_neighbors(drawer.cls)
                      THEN active_with_neighbors(modules, row, col)
                      ELSE active(modules, row, col)
         out == drawrect(drawer, box, is_active, randint(random_state))
     IN  /\ _img' = [_img EXCEPT ![drawer.img] = append(@, out.img)]
         /\ _subpaths' = [_subpaths EXCEPT ![drawer.img] = append(@, out.subpaths)]
         /\ calls' = Append(calls,
              [pass |-> passes, img |-> drawer.img, cell |-> cell,
               box |-> box, is_active |-> is_active,
               out |-> out.img \o out.subpaths,
               grew |-> (Len(_img'[drawer.img]) + Len(_subpaths'[drawer.img]))
                        - (Len(_img[drawer.img]) + Len(_subpaths[drawer.img]))])
  /\ next_cell' = next_cell + 1
  /\ UNCHANGED <<drawer, modules, passes, random_state, eye_img, eye>>

\* the passes before the last are sequential, the last is rendered by the
\* workers; every pass is for the same image
OrderNext ==
  \/ Initialize("A")
  \/ passes < MaxPasses /\ DrawRect
  \/ \E w \in WorkerIds : Work(w)

OrderSpec == OrderInit /\ [][OrderNext]_vars

-----------------------------------------------------------------------------
(* Reading the history of calls *)

\* the activity of the module a call was about
Me(c) == IF needs_neighbors(drawer.cls) THEN c.is_active.me ELSE c.is_active

\* the calls of the pass in progress: the drawer is as it was when they ran
Current == {k \in DOMAIN calls : calls[k].pass = passes}

\* what image i holds: its elements and its path fragments
Sink(i) == _img[i] \o _subpaths[i]

\* what the calls made for image i emitted, in the order of the calls
RECURSIVE EmittedUpTo(_, _)
EmittedUpTo(i, n) ==
  IF n = 0 THEN <<>>
  ELSE EmittedUpTo(i, n - 1) \o (IF calls[n].img = i THEN calls[n].out ELSE <<>>)

Emitted(i) == EmittedUpTo(i, Len(calls))

-----------------------------------------------------------------------------
(* C1 *)

\* C1: whatever the class and the neighbours, a drawrect call on a module that
\* is itself inactive appends nothing: neither img._img nor img._subpaths grows.
C1_InactiveEmitsNothing ==
  \A k \in DOMAIN calls : ~Me(calls[k]) => calls[k].grew = 0

-----------------------------------------------------------------------------
(* C2 *)

\* C2: in every class but the blank one, a drawrect call on an active module
\* appends exactly one primitive, for each of the 16 neighbour combinations.
C2_ActiveEmitsOne ==
  \A k \in DOMAIN calls :
    (drawer.cls # "SvgBlankDrawer" /\ Me(calls[k])) => calls[k].grew = 1

-----------------------------------------------------------------------------
(* C3 *)

\* a list that is old, or old with one entry appended
Extends(old, new) ==
  \/ new = old
  \/ Len(new) = Len(old) + 1 /\ SubSeq(new, 1, Len(old)) = old

\* the calls of a pass are made in row-major order
RowMajor ==
  \A k \in DOMAIN calls :
    /\ calls[k].cell = (k - 1) % NCells
    /\ calls[k].box = pixel_box(calls[k].img, calls[k].cell \div GridN, calls[k].cell % GridN)

\* C3: the sink is append-only and keeps the order of the calls: each step
\* leaves the entries of every sink in place and adds at most one at the end,
\* and the k-th entry of a sink is what the k-th emitting call of the
\* row-major passes made for that image emitted.
C3_Order ==
  RowMajor /\ \A i \in ImgIds : Sink(i) = Emitted(i)

C3_AppendOnly ==
  [][\A i \in ImgIds : Extends(_img[i], _img'[i]) /\ Extends(_subpaths[i], _subpaths'[i])]_vars

-----------------------------------------------------------------------------
(* C4 *)

\* the place of a predicate in the order top-left, top-right, bottom-left,
\* bottom-right corner, top, bottom, left, right block, alone (the classes
\* that say "below" for "bottom" mean the same neighbour)
PrecedenceRank(name) ==
  CASE name = "top_left_corner" -> 1
    [] name = "top_right_corner" -> 2
    [] name \in {"bottom_left_corner", "below_left_corner"} -> 3
    [] name \in {"bottom_right_corner", "below_right_corner"} -> 4
    [] name = "top_block" -> 5
    [] name \in {"bottom_block", "below_block"} -> 6
    [] name = "left_block" -> 7
    [] name = "right_block" -> 8
    [] name = "alone" -> 9

\* the variant of the last true predicate of p in that order, "base" if none
LastTrue(p) ==
  LET true == {n \in DOMAIN p : p[n]}
  IN  IF true = {} THEN "base"
      ELSE CHOOSE n \in true : \A o \in true : PrecedenceRank(o) <= PrecedenceRank(n)

\* C4: in every neighbour-aware class, a drawrect call on an active module
\* emits the element of the variant of the last true predicate in the fixed
\* order (the base rectangle when no predicate is true), for each of the 16
\* combinations of N, S, E and W.
C4_LastTruePredicateWins ==
  \A k \in Current :
    (drawer.cls \in NeighborClasses /\ calls[k].is_active.me) =>
      calls[k].out =
        <<el_of(drawer, calls[k].box, LastTrue(preds_of(drawer.cls, calls[k].is_active)))>>

-----------------------------------------------------------------------------
(* C5 *)

\* the calls that got past the early return of drawrect in a neighbour-aware
\* class, and so evaluated the adjacency predicates
Evaluated == {k \in DOMAIN calls : drawer.cls \in NeighborClasses /\ calls[k].out # <<>>}

\* the four directional block predicates as functions of one axis only
OneAxis(a) ==
  [top_block |-> ~a.N /\ a.S, bottom_block |-> ~a.S /\ a.N,
   left_block |-> ~a.W /\ a.E, right_block |-> ~a.E /\ a.W]

\* the same, each also requiring both perpendicular neighbours to be inactive
OneAxisOnly(a) ==
  [top_block |-> ~a.N /\ a.S /\ ~a.E /\ ~a.W, bottom_block |-> ~a.S /\ a.N /\ ~a.E /\ ~a.W,
   left_block |-> ~a.W /\ a.E /\ ~a.N /\ ~a.S, right_block |-> ~a.E /\ a.W /\ ~a.N /\ ~a.S]

\* the block predicates the class defines agree with those of want
BlocksAgree(p, want) ==
  \A n \in DOMAIN p \cap DOMAIN want : p[n] = want[n]

\* C5 (as stated): in every neighbour-aware class, top_block, bottom_block,
\* left_block and right_block depend on one axis only, whatever the activity
\* of the two perpendicular neighbours.
C5_BlocksOneAxisEverywhere ==
  \A k \in Evaluated :
    BlocksAgree(preds_of(drawer.cls, calls[k].is_active), OneAxis(calls[k].is_active))

\* C5 (amended): the block predicates depend on one axis only in the vertical
\* and horizontal bars (top/bottom, resp. left/right); in vertical-2
\* below_block is "S inactive" and in horizontal-2 right_block is "E inactive";
\* in every other neighbour-aware class all four block predicates are defined
\* and each also requires both perpendicular neighbours to be inactive.
C5_BlocksByClass ==
  \A k \in Evaluated :
    LET a == calls[k].is_active
        p == preds_of(drawer.cls, a)
    IN  CASE drawer.cls = "SvgVerticalBarsDrawer" ->
               /\ {"top_block", "bottom_block"} = DOMAIN p \cap DOMAIN OneAxis(a)
               /\ BlocksAgree(p, OneAxis(a))
          [] drawer.cls = "SvgHorizontalBarsDrawer" ->
               /\ {"left_block", "right_block"} = DOMAIN p \cap DOMAIN OneAxis(a)
               /\ BlocksAgree(p, OneAxis(a))
          [] drawer.cls = "SvgVertical2BarsDrawer" ->
               /\ DOMAIN p \cap DOMAIN OneAxis(a) = {}
               /\ p.below_block = ~a.S
          [] drawer.cls = "SvgHorizontal2BarsDrawer" ->
               /\ DOMAIN p \cap DOMAIN OneAxis(a) = {"right_block"}
               /\ p.right_block = ~a.E
          [] OTHER ->
               /\ DOMAIN OneAxis(a) \subseteq DOMAIN p
               /\ BlocksAgree(p, OneAxisOnly(a))

\* an active module of a rounded pass with N inactive, S and E active: the
\* one-axis reading makes it a top block, the class does not
C5_Witness ==
  \E k \in Evaluated :
    /\ drawer.cls = "SvgRoundedDrawer"
    /\ ~calls[k].is_active.N /\ calls[k].is_active.S /\ calls[k].is_active.E
    /\ calls[k].is_active.me
    /\ ~preds_of(drawer.cls, calls[k].is_active).top_block

-----------------------------------------------------------------------------
(* C6 *)

\* the position a call was about: row, col = box[0]
Row(k) == calls[k].box[1][1]
Col(k) == calls[k].box[1][2]

\* img.box_size of the image of the pass in progress: the side of a cell
CellSize == Images[drawer.img].box_size

\* C6: after initialize, box_delta = (1 - size_ratio) * cell_size / 2,
\* box_size = cell_size * size_ratio, box_half = box_size / 2, and for every
\* position of the pass coords returns x0 = row + box_delta,
\* y0 = col + box_delta, x1 = x0 + box_size, y1 = y0 + box_size,
\* xh = x0 + box_half, yh = y0 + box_half, for every size_ratio.
C6_Coords ==
  drawer.img # None =>
    /\ 2 * drawer.box_delta = (Decimal(1) - drawer.size_ratio) * CellSize
    /\ drawer.box_size = CellSize * drawer.size_ratio
    /\ 2 * drawer.box_half = drawer.box_size
    /\ \A k \in Current :
         LET c == coords(drawer, calls[k].box)
         IN  /\ c.x0 = Decimal(Row(k)) + drawer.box_delta
             /\ c.y0 = Decimal(Col(k)) + drawer.box_delta
             /\ c.x1 = c.x0 + drawer.box_size
             /\ c.y1 = c.y0 + drawer.box_size
             /\ c.xh = c.x0 + drawer.box_half
             /\ c.yh = c.y0 + drawer.box_half

\* a pass with a size_ratio strictly between 0 and 1 has drawn a module whose
\* row and column differ
C6_Witness ==
  /\ drawer.img # None
  /\ drawer.size_ratio > 0 /\ drawer.size_ratio < Decimal(1)
  /\ \E k \in Current : Row(k) # Col(k) /\ calls[k].out # <<>>

-----------------------------------------------------------------------------
(* C7 *)

\* call k is about the cell next to that of call j along the first axis /
\* along the second axis (positions differing by cell_size on that axis)
NextInRow(j, k) == Row(k) = Row(j) + CellSize /\ Col(k) = Col(j)
NextInCol(j, k) == Col(k) = Col(j) + CellSize /\ Row(k) = Row(j)

\* C7: with size_ratio = 1, box_delta is 0 and the far edge of a cell's box
\* is the near edge of the box of the next cell, on both axes: no gap and no
\* overlap.
C7_FullSizeBoxesTouch ==
  (drawer.img # None /\ drawer.size_ratio = Decimal(1)) =>
    /\ drawer.box_delta = 0
    /\ \A j, k \in Current :
         /\ NextInRow(j, k) =>
              coords(drawer, calls[j].box).x1 = coords(drawer, calls[k].box).x0
         /\ NextInCol(j, k) =>
              coords(drawer, calls[j].box).y1 = coords(drawer, calls[k].box).y0

\* a pass with size_ratio = 1 has drawn a cell, the next one along the first
\* axis and the next one along the second
C7_Witness ==
  /\ drawer.img # None
  /\ drawer.size_ratio = Decimal(1)
  /\ \E j, k, l \in Current :
       /\ NextInRow(j, k) /\ NextInCol(j, l)
       /\ calls[j].out # <<>> /\ calls[k].out # <<>> /\ calls[l].out # <<>>

-----------------------------------------------------------------------------
(* C8 *)

\* C8: for 0 < size_ratio <= 1 the box is centred in its cell: the inset is
\* box_delta on all four sides, the centre (xh, yh) is
\* (row + cell_size / 2, col + cell_size / 2) whatever size_ratio is, and the
\* gap between the boxes of two adjacent cells is 2 * box_delta.
C8_Centred ==
  (drawer.img # None /\ drawer.size_ratio > 0 /\ drawer.size_ratio <= Decimal(1)) =>
    \A j \in Current :
      LET c == coords(drawer, calls[j].box)
      IN  /\ c.x0 - Decimal(Row(j)) = drawer.box_delta
          /\ Decimal(Row(j) + CellSize) - c.x1 = drawer.box_delta
          /\ c.y0 - Decimal(Col(j)) = drawer.box_delta
          /\ Decimal(Col(j) + CellSize) - c.y1 = drawer.box_delta
          /\ 2 * c.xh = 2 * Decimal(Row(j)) + Decimal(CellSize)
          /\ 2 * c.yh = 2 * Decimal(Col(j)) + Decimal(CellSize)
          /\ \A k \in Current :
               /\ NextInRow(j, k) =>
                    coords(drawer, calls[k].box).x0 - c.x1 = 2 * drawer.box_delta
               /\ NextInCol(j, k) =>
                    coords(drawer, calls[k].box).y0 - c.y1 = 2 * drawer.box_delta

\* a pass with 0 < size_ratio < 1 (so with a positive inset) has drawn a
\* cell, the next one along the first axis and the next one along the second
C8_Witness ==
  /\ drawer.img # None
  /\ drawer.size_ratio > 0 /\ drawer.size_ratio < Decimal(1)
  /\ drawer.box_delta > 0
  /\ \E j, k, l \in Current :
       /\ NextInRow(j, k) /\ NextInCol(j, l)
       /\ calls[j].out # <<>> /\ calls[k].out # <<>> /\ calls[l].out # <<>>

-----------------------------------------------------------------------------
(* C9 *)

\* C9: a drawer whose size_ratio is <= 0 or > 1 never gets to append a
\* primitive: every sink stays empty in a pass with an invalid size_ratio.
C9_InvalidRatioEmitsNothing ==
  (drawer.size_ratio <= 0 \/ drawer.size_ratio > Decimal(1)) =>
    \A i \in ImgIds : Sink(i) = <<>>

-----------------------------------------------------------------------------
(* C10 *)

\* C10: in every class but the random square, two drawrect calls for the
\* same image with the same box and the same neighbour context emit equal
\* primitives, whatever calls were made in between. (Each call is compared,
\* when it is the latest, with all the calls before it.)
C10_Deterministic ==
  \A j, k \in DOMAIN calls :
    ( /\ k = Len(calls)
      /\ drawer.cls # "SvgRandomSquareDrawer"
      /\ calls[j].img = calls[k].img
      /\ calls[j].box = calls[k].box
      /\ calls[j].is_active = calls[k].is_active )
    => calls[j].out = calls[k].out

\* a module was drawn twice for one image and emitted a primitive each time,
\* with a call that emitted something else in between
C10_Witness ==
  \E j, m, k \in DOMAIN calls :
    /\ j < m /\ m < k
    /\ drawer.cls # "SvgRandomSquareDrawer"
    /\ calls[j].img = calls[k].img
    /\ calls[j].box = calls[k].box
    /\ calls[j].is_active = calls[k].is_active
    /\ calls[j].out # <<>>
    /\ calls[m].out # <<>> /\ calls[m].out # calls[j].out

-----------------------------------------------------------------------------
(* C11 *)

\* C11: every rotation angle the random square puts into an emitted polygon
\* lies in [0, 360): the value 360 is never emitted.
C11_AngleBelow360 ==
  \A i \in ImgIds : \A n \in DOMAIN _img[i] :
    drawer.cls = "SvgRandomSquareDrawer" =>
      /\ _img[i][n].transform[2].num >= 0
      /\ _img[i][n].transform[2].num < 360

-----------------------------------------------------------------------------
(* C12 *)

\* C12: the blank drawer never changes the sink: whatever the module and
\* its neighbours, drawrect appends nothing.
C12_BlankEmitsNothing ==
  drawer.cls = "SvgBlankDrawer" =>
    /\ \A i \in ImgIds : Sink(i) = <<>>
    /\ \A k \in DOMAIN calls : calls[k].grew = 0 /\ calls[k].out = <<>>

\* a blank pass has called drawrect on an active module and on an inactive one
C12_Witness ==
  /\ drawer.cls = "SvgBlankDrawer"
  /\ \E j, k \in DOMAIN calls : Me(calls[j]) /\ ~Me(calls[k])

-----------------------------------------------------------------------------
(* C13 *)

\* the active modules among the first n of the matrix, in row-major order
RECURSIVE ActiveBefore(_)
ActiveBefore(n) ==
  IF n = 0 THEN <<>>
  ELSE ActiveBefore(n - 1) \o
       (IF active(modules, (n - 1) \div GridN, (n - 1) % GridN) THEN <<n - 1>> ELSE <<>>)

\* the box of the module with row-major index n, for the image of the pass
BoxOf(n) == pixel_box(drawer.img, n \div GridN, n % GridN)

\* the last n entries of img._img of the image of the pass
LastOf(n) ==
  SubSeq(_img[drawer.img], Len(_img[drawer.img]) - n + 1, Len(_img[drawer.img]))

\* reading back a rectangle: it covers (a part of) the cell of module cell.
\* The attributes are in units (tenths of pixels); the cell spans box_size
\* pixels from the corner pixel_box gives.
Covers(r, cell) ==
  LET x == 10 * r.x[1].num
      y == 10 * r.y[1].num
      w == 10 * r.width[1].num
      h == 10 * r.height[1].num
      px == Decimal(pixel_box(drawer.img, cell[1], cell[2])[1][1])
      py == Decimal(pixel_box(drawer.img, cell[1], cell[2])[1][2])
  IN  /\ x < px + Decimal(CellSize) /\ px < x + w
      /\ y < py + Decimal(CellSize) /\ py < y + h

\* C13: after a full pass of the square drawer, the rectangles the pass
\* emitted correspond one to one to the active modules (in row-major order),
\* each with x = x0, y = y0 and width = height = box_size of its module's
\* box; with size_ratio = 1 the cells the rectangles cover are exactly the
\* active modules.
C13_SquareRoundTrip ==
  (drawer.cls = "SvgSquareDrawer" /\ drawer.img # None /\ next_cell = NCells) =>
    LET cells == ActiveBefore(NCells)
        n == Len(cells)
    IN  /\ Cardinality({k \in Current : calls[k].grew = 1}) = n
        /\ \A k \in Current : calls[k].grew \in {0, 1}
        /\ Len(_img[drawer.img]) >= n
        /\ \A m \in 1 .. n :
             LET c == coords(drawer, BoxOf(cells[m]))
                 r == LastOf(n)[m]
             IN  /\ r.tag = "rect"
                 /\ r.x = <<Num(units(c.x0))>>
                 /\ r.y = <<Num(units(c.y0))>>
                 /\ r.width = <<Num(units(drawer.box_size))>>
                 /\ r.height = <<Num(units(drawer.box_size))>>
        /\ drawer.size_ratio = Decimal(1) =>
             {cell \in Cells : \E m \in 1 .. n : Covers(LastOf(n)[m], cell)}
               = {cell \in Cells : modules[cell]}

\* a full pass of the square drawer with size_ratio = 1 over a matrix that is
\* not symmetric, with active and inactive modules
C13_Witness ==
  /\ drawer.cls = "SvgSquareDrawer" /\ drawer.img # None /\ next_cell = NCells
  /\ drawer.size_ratio = Decimal(1)
  /\ modules[<<0, 1>>] /\ ~modules[<<1, 0>>] /\ modules[<<1, 1>>]

-----------------------------------------------------------------------------
(* C14 *)

\* the element drawer of class cls, built with the size_ratio of the drawer
\* and initialized for the image of the pass
Discrete(cls) ==
  initialize(BaseSvgQRModuleDrawer_init(cls, drawer.size_ratio, <<>>), drawer.img)

\* the numbers of a path fragment, by the place of their token
PathNum(path, n) == path[n].num

\* C14: for 0 < size_ratio <= 1 the path fragment of a module has the
\* geometry of the discrete element of the same module: the path square runs
\* through the corners (x0, y0) and (x1, y1) of the rectangle, and the two
\* arcs of the path circle join (x0, yh) and (x1, yh), around the centre
\* (xh, yh) of the circle element, with its radius box_half.
C14_SameGeometry ==
  (drawer.img # None /\ drawer.size_ratio > 0 /\ drawer.size_ratio <= Decimal(1)) =>
    \A k \in Current :
      calls[k].out # <<>> =>
        LET path == calls[k].out[1]
            c == coords(drawer, calls[k].box)
            rect == SvgSquareDrawer_el(Discrete("SvgSquareDrawer"), calls[k].box)
            circle == SvgCircleDrawer_el(Discrete("SvgCircleDrawer"), calls[k].box)
        IN  /\ drawer.cls = "SvgPathSquareDrawer" =>
                 /\ PathNum(path, 2) = rect.x[1].num
                 /\ PathNum(path, 4) = rect.y[1].num
                 /\ PathNum(path, 6) = rect.x[1].num + rect.width[1].num
                 /\ PathNum(path, 8) = rect.y[1].num + rect.height[1].num
                 /\ PathNum(path, 10) = rect.x[1].num
                 /\ PathNum(path, 6) = units(c.x1) /\ PathNum(path, 8) = units(c.y1)
            /\ drawer.cls = "SvgPathCircleDrawer" =>
                 /\ PathNum(path, 2) = units(c.x0) /\ PathNum(path, 10) = units(c.x1)
                 /\ PathNum(path, 18) = units(c.x0)
                 /\ PathNum(path, 2) + PathNum(path, 10) = 2 * circle.cx[1].num
                 /\ \A n \in {4, 12, 20} : PathNum(path, n) = circle.cy[1].num
                 /\ \A n \in {6, 8, 14, 16} :
                      /\ PathNum(path, n) = circle.r[1].num
                      /\ PathNum(path, n) = units(drawer.box_half)

-----------------------------------------------------------------------------
(* C15 *)

\* the fill colours given explicitly at construction; none of them is the
\* front_color of an image, so the fill_color of a drawer tells whether it
\* was constructed with one
ExplicitFills == {kw.fill_color : kw \in {kw \in Kwargs : "fill_color" \in DOMAIN kw}}

\* C15: every element a pass emits carries as fill the fill_color given at
\* construction, and the front_color of the image of the pass when none was
\* given. (Path fragments are strings without a fill; they are left out.)
C15_FillGivenOrFrontColor ==
  \A k \in Current :
    (drawer.cls \notin PathClasses /\ calls[k].out # <<>>) =>
      calls[k].out[1].fill =
        IF drawer.fill_color \in ExplicitFills
        THEN drawer.fill_color
        ELSE Images[drawer.img].front_color

-----------------------------------------------------------------------------
(* C16 *)

\* the pixels at the exact centre of the image of the classifier: the middle
\* pixel of an odd side, the two around the middle of an even side
EyeCentres == {c \in 0 .. eye_img.pixel_size - 1 : 2 * c \in {eye_img.pixel_size - 1, eye_img.pixel_size}}

\* C16: whatever the border and the box size, the pixel at the origin (0, 0)
\* is classified is_eye_outer; in a matrix of odd size greater than 21, the
\* pixel at the exact centre of the image is classified neither is_eye_outer
\* nor is_eye_center.
C16_OriginAndCentre ==
  eye # <<>> =>
    /\ (eye[1].row = 0 /\ eye[1].col = 0) => eye[1].is_eye_outer
    /\ ( /\ eye_img.modules_count > 21 /\ eye_img.modules_count % 2 = 1
         /\ eye[1].row \in EyeCentres /\ eye[1].col \in EyeCentres )
       => (~eye[1].is_eye_outer /\ ~eye[1].is_eye_center)

\* the classifier has answered for the centre of an image of a matrix of 25
\* modules
C16_Witness ==
  /\ eye # <<>>
  /\ eye_img.modules_count = 25
  /\ eye[1].row \in EyeCentres /\ eye[1].col \in EyeCentres
  /\ ~eye[1].is_eye_outer /\ ~eye[1].is_eye_center

-----------------------------------------------------------------------------
(* C17 *)

BarClasses ==
  {"SvgVerticalBarsDrawer", "SvgVertical2BarsDrawer",
   "SvgHorizontalBarsDrawer", "SvgHorizontal2BarsDrawer"}

\* the output of a call is exactly one circle centred at (xh, yh) of the
\* module's box, with radius box_half
IsDot(k) ==
  /\ Len(calls[k].out) = 1
  /\ calls[k].out[1].tag = "circle"
  /\ calls[k].out[1].cx = <<Num(units(coords(drawer, calls[k].box).xh))>>
  /\ calls[k].out[1].cy = <<Num(units(coords(drawer, calls[k].box).yh))>>
  /\ calls[k].out[1].r = <<Num(units(drawer.box_half))>>

\* an active module none of whose four orthogonal neighbours is active
Isolated(a) == a.me /\ ~a.N /\ ~a.S /\ ~a.E /\ ~a.W

\* C17: in each of the four bar classes, an active module with no active
\* neighbour is emitted as exactly one circle centred at (xh, yh) with
\* radius box_half.
C17_IsolatedBarIsDot ==
  \A k \in Current :
    (drawer.cls \in BarClasses /\ Isolated(calls[k].is_active)) => IsDot(k)

-----------------------------------------------------------------------------
(* C18 *)

\* C18: in the vertical bars an active module whose N and S neighbours are
\* inactive is emitted as the dot whatever E and W are, and in the horizontal
\* bars an active module whose E and W neighbours are inactive is emitted as
\* the dot whatever N and S are.
C18_EffectivelyAloneIsDot ==
  \A k \in Current :
    LET a == calls[k].is_active
    IN  /\ (drawer.cls = "SvgVerticalBarsDrawer" /\ a.me /\ ~a.N /\ ~a.S) => IsDot(k)
        /\ (drawer.cls = "SvgHorizontalBarsDrawer" /\ a.me /\ ~a.E /\ ~a.W) => IsDot(k)

-----------------------------------------------------------------------------
(* C19 *)

Min(a, b) == IF a < b THEN a ELSE b
Max(a, b) == IF a < b THEN b ELSE a
Abs(a) == IF a < 0 THEN -a ELSE a

\* a bounding box grown to hold the point (x, y)
Include(b, x, y) ==
  [b EXCEPT !.xmin = Min(@, x), !.xmax = Max(@, x), !.ymin = Min(@, y), !.ymax = Max(@, y)]

\* The bounding box of an arc "A r,r,0,0,1,x,y" (small arc, positive sweep)
\* from (px, py) to (x, y). Between endpoints on one horizontal or vertical
\* line the arc bulges by at most half the chord, to the side the sweep
\* gives: upwards going right, downwards going left, to the right going
\* down, to the left going up. The box of any other arc is left open.
IncludeArc(b, px, py, x, y) ==
  LET e == Include(b, x, y)
  IN  CASE py = y /\ x >= px -> [e EXCEPT !.ymin = Min(@, y - (x - px) \div 2)]
        [] py = y /\ x < px -> [e EXCEPT !.ymax = Max(@, y + (px - x) \div 2)]
        [] px = x /\ y >= py -> [e EXCEPT !.xmax = Max(@, x + (y - py) \div 2)]
        [] px = x /\ y < py -> [e EXCEPT !.xmin = Min(@, x - (py - y) \div 2)]
        [] OTHER -> [e EXCEPT !.open = TRUE]

\* the bounding box of the path d, read command by command from token n on;
\* (px, py) is the current point
RECURSIVE PathBox(_, _, _, _, _)
PathBox(d, n, px, py, b) ==
  IF n > Len(d) THEN b
  ELSE CASE d[n].lit = "M" ->
              PathBox(d, n + 4, d[n + 1].num, d[n + 3].num,
                      IF n = 1
                      THEN [xmin |-> d[n + 1].num, xmax |-> d[n + 1].num,
                            ymin |-> d[n + 3].num, ymax |-> d[n + 3].num, open |-> FALSE]
                      ELSE Include(b, d[n + 1].num, d[n + 3].num))
         [] d[n].lit = "H" ->
              PathBox(d, n + 2, d[n + 1].num, py, Include(b, d[n + 1].num, py))
         [] d[n].lit = "V" ->
              PathBox(d, n + 2, px, d[n + 1].num, Include(b, px, d[n + 1].num))
         [] d[n].lit = "A" /\ d[n + 4].lit = ",0,0,1," ->
              PathBox(d, n + 8, d[n + 5].num, d[n + 7].num,
                      IncludeArc(b, px, py, d[n + 5].num, d[n + 7].num))
         [] d[n].lit \in {"Z", "z"} -> PathBox(d, n + 1, px, py, b)
         [] OTHER -> [b EXCEPT !.open = TRUE]

\* the bounding box of an emitted element: a path or a circle
ShapeBox(e) ==
  IF e.tag = "circle"
  THEN [xmin |-> e.cx[1].num - e.r[1].num, xmax |-> e.cx[1].num + e.r[1].num,
        ymin |-> e.cy[1].num - e.r[1].num, ymax |-> e.cy[1].num + e.r[1].num,
        open |-> FALSE]
  ELSE PathBox(e.d, 1, 0, 0,
               [xmin |-> 0, xmax |-> 0, ymin |-> 0, ymax |-> 0, open |-> FALSE])

\* the shape stays within [x0, x1] x [y0, y1] of the coordinates c
Within(b, c) ==
  /\ ~b.open
  /\ units(c.x0) <= b.xmin /\ b.xmax <= units(c.x1)
  /\ units(c.y0) <= b.ymin /\ b.ymax <= units(c.y1)

VerticalClasses == {"SvgVerticalBarsDrawer", "SvgVertical2BarsDrawer"}
HorizontalClasses == {"SvgHorizontalBarsDrawer", "SvgHorizontal2BarsDrawer"}

\* C19: in every bar class, with 0 < size_ratio <= 1, the shape emitted for
\* an active module stays within [x0, x1] x [y0, y1] when the continuing
\* neighbour (S in the vertical classes, E in the horizontal ones) is
\* inactive; it reaches past the box along the drawing axis only when that
\* neighbour is active, and then to y1 + h, resp. x1 + h. (A shape whose box
\* is left open is taken to reach past the box.)
C19_BarsExtendOnlyIntoNeighbour ==
  (drawer.img # None /\ drawer.size_ratio > 0 /\ drawer.size_ratio <= Decimal(1)) =>
    \A k \in Current :
      (drawer.cls \in BarClasses /\ calls[k].is_active.me /\ calls[k].out # <<>>) =>
        LET a == calls[k].is_active
            c == coords(drawer, calls[k].box)
            h == units(drawer.box_half - drawer.box_delta)
            b == ShapeBox(calls[k].out[1])
        IN  /\ drawer.cls \in VerticalClasses =>
                 /\ ~a.S => Within(b, c)
                 /\ b.open => a.S
                 /\ (~b.open /\ b.ymax > units(c.y1)) =>
                      (a.S /\ b.ymax = units(c.y1) + h)
            /\ drawer.cls \in HorizontalClasses =>
                 /\ ~a.E => Within(b, c)
                 /\ b.open => a.E
                 /\ (~b.open /\ b.xmax > units(c.x1)) =>
                      (a.E /\ b.xmax = units(c.x1) + h)

\* the four bar classes have each emitted, with size_ratio = 1, a shape that
\* reaches past its box into the active neighbour, and one that stays within
\* its box next to an inactive neighbour and an active opposite neighbour
C19_Witness ==
  /\ drawer.img # None /\ drawer.size_ratio = Decimal(1)
  /\ drawer.cls \in BarClasses
  /\ \E j, k \in Current :
       LET cont(n) == IF drawer.cls \in VerticalClasses
                      THEN calls[n].is_active.S ELSE calls[n].is_active.E
           back(n) == IF drawer.cls \in VerticalClasses
                      THEN calls[n].is_active.N ELSE calls[n].is_active.W
           far(n) == IF drawer.cls \in VerticalClasses
                     THEN ShapeBox(calls[n].out[1]).ymax - units(coords(drawer, calls[n].box).y1)
                     ELSE ShapeBox(calls[n].out[1]).xmax - units(coords(drawer, calls[n].box).x1)
       IN  /\ calls[j].is_active.me /\ calls[j].out # <<>> /\ cont(j) /\ far(j) > 0
           /\ calls[k].is_active.me /\ calls[k].out # <<>> /\ ~cont(k) /\ back(k)
           /\ far(k) = 0

-----------------------------------------------------------------------------
(* C20 *)

RoundedClasses ==
  {"SvgRoundedDrawer", "SvgRounded2Drawer",
   "SvgRounded2InvertedDrawer", "SvgRounded2Inverted2Drawer"}

\* a rectangle element with a corner radius that is given and not zero
IsRoundedSquare(e) ==
  /\ e.tag = "rect"
  /\ {"rx", "ry"} \subseteq DOMAIN e
  /\ e.rx # <<Lit("0")>> /\ e.ry # <<Lit("0")>>

\* C20: in each of the four rounded classes, an active module with no active
\* neighbour is emitted as a circle or as a rounded square (a rectangle with
\* a non-zero rx / ry), never as a plain rectangle.
C20_IsolatedRoundedIsRound ==
  \A k \in Current :
    (drawer.cls \in RoundedClasses /\ Isolated(calls[k].is_active)) =>
      /\ Len(calls[k].out) = 1
      /\ calls[k].out[1].tag = "circle" \/ IsRoundedSquare(calls[k].out[1])

-----------------------------------------------------------------------------
(* C21 *)

SharpClasses == {"SvgSharpedDrawer", "SvgSharped2Drawer"}

\* none of the block predicates of the drawer's class is true in a context
NoBlock(a) ==
  LET p == preds_of(drawer.cls, a)
  IN  ~p.left_block /\ ~p.right_block /\ ~p.top_block /\ ~p.bottom_block

\* the undecorated rectangle path over the box of a call, from (x0, y0) to (x1, y1)
BaseRectangle(k) ==
  LET c == coords(drawer, calls[k].box)
  IN  [tag |-> "path",
       d |-> <<Lit("M"), Num(units(c.x0)), Lit(","), Num(units(c.y0)),
               Lit("H"), Num(units(c.x1)), Lit("V"), Num(units(c.y1)),
               Lit("H"), Num(units(c.x0)), Lit("z")>>,
       fill |-> drawer.fill_color]

\* C21: in the sharp and sharp-2 classes an active module for which no block
\* predicate is true (in particular one with no active neighbour) is emitted
\* as the base rectangle path from (x0, y0) to (x1, y1).
C21_SharpBaseRectangle ==
  \A k \in Current :
    (drawer.cls \in SharpClasses /\ calls[k].is_active.me /\ NoBlock(calls[k].is_active)) =>
      calls[k].out = <<BaseRectangle(k)>>

\* an isolated module and a module with two active neighbours were both
\* emitted as the base rectangle by a sharp drawer
C21_Witness ==
  /\ drawer.cls \in SharpClasses
  /\ \E k \in Current :
       Isolated(calls[k].is_active) /\ calls[k].out = <<BaseRectangle(k)>>
  /\ \E k \in Current :
       /\ calls[k].is_active.me /\ calls[k].is_active.N /\ calls[k].is_active.S
       /\ calls[k].out = <<BaseRectangle(k)>>

-----------------------------------------------------------------------------
(* C22 *)

\* pixel p lies in cells border+2 .. border+4, counted from the near edge
\* of the image: border_width + 2 * cell_size <= p < border_width + 5 * cell_size
EyeNear(img, p) ==
  /\ img.border * img.box_size + 2 * img.box_size <= p
  /\ p < img.border * img.box_size + 5 * img.box_size

\* the same extent, measured from the far edge of the image
EyeFar(img, p) == EyeNear(img, img.pixel_size - 1 - p)

\* the pixel lies in the 3x3-cell centre of the top-left, top-right or
\* bottom-left finder pattern
InEyeCentre(img, row, col) ==
  \/ EyeNear(img, row) /\ EyeNear(img, col)
  \/ EyeNear(img, row) /\ EyeFar(img, col)
  \/ EyeFar(img, row) /\ EyeNear(img, col)

\* C22: is_eye_center(row, col) is true exactly for the pixels inside the
\* 3x3-cell centre of the top-left, top-right or bottom-left finder pattern,
\* and so false in the whole bottom-right corner.
C22_EyeCenterExact ==
  eye # <<>> =>
    (eye[1].is_eye_center <=> InEyeCentre(eye_img, eye[1].row, eye[1].col))

-----------------------------------------------------------------------------
(* C23 *)

\* pixel p lies within the border and the first 8 cells, counted from the
\* near edge of the image
OuterNear(img, p) == p < img.border * img.box_size + 8 * img.box_size

\* the mirror image of that extent about the centre line of the image
OuterFar(img, p) == OuterNear(img, img.pixel_size - 1 - p)

\* the top-left box, its mirror image about the vertical centre line (top
\* right) and its mirror image about the horizontal centre line (bottom left)
InEyeOuter(img, row, col) ==
  \/ OuterNear(img, row) /\ OuterNear(img, col)
  \/ OuterNear(img, row) /\ OuterFar(img, col)
  \/ OuterFar(img, row) /\ OuterNear(img, col)

\* C23: is_eye_outer(row, col) is true exactly on the top-left box (border
\* plus 8 cells per side) and on its two mirror images, the top-right and
\* the bottom-left box, and false everywhere else.
C23_EyeOuterMirrored ==
  eye # <<>> =>
    (eye[1].is_eye_outer <=> InEyeOuter(eye_img, eye[1].row, eye[1].col))

-----------------------------------------------------------------------------
(* C24 *)

\* the corner predicates among the predicates p of a call
Corners(p) == {n \in DOMAIN p : PrecedenceRank(n) \in 1 .. 4}

\* the classes that define the four corner predicates and alone
CornerClasses ==
  {cls \in NeighborClasses :
     LET p == preds_of(cls, active_with_neighbors([c \in Cells |-> TRUE], 0, 0))
     IN  Cardinality(Corners(p)) = 4 /\ "alone" \in DOMAIN p}

\* the class of the drawer defines the four corner predicates and alone
HasCornersAndAlone == drawer.cls \in CornerClasses

\* all four corner predicates of p are true
AllCorners(p) == \A n \in Corners(p) : p[n]

\* C24 (as stated): no neighbour context makes the four corner predicates
\* and alone true at the same time.
C24_NeverAllCornersAndAlone ==
  HasCornersAndAlone =>
    \A k \in Evaluated :
      LET p == preds_of(drawer.cls, calls[k].is_active)
      IN  ~(AllCorners(p) /\ p.alone)

\* C24 (amended): the four corner predicates and alone are true at the same
\* time in exactly one neighbour context, the one with N, S, E and W all
\* inactive; in every other context alone is false and at least one corner
\* predicate is false. (Each call is read when it is the latest.)
C24_AllCornersOnlyWhenIsolated ==
  (HasCornersAndAlone /\ calls # <<>> /\ calls[Len(calls)].out # <<>>) =>
      LET k == Len(calls)
          p == preds_of(drawer.cls, calls[k].is_active)
      IN  /\ Isolated(calls[k].is_active) => (AllCorners(p) /\ p.alone)
          /\ ~Isolated(calls[k].is_active) => (~AllCorners(p) /\ ~p.alone)

\* an isolated module with all five predicates true, and a module with one
\* active neighbour, two corner predicates true and alone false
C24_Witness ==
  /\ HasCornersAndAlone
  /\ \E k \in Evaluated :
       LET p == preds_of(drawer.cls, calls[k].is_active)
       IN  Isolated(calls[k].is_active) /\ AllCorners(p) /\ p.alone
  /\ \E k \in Evaluated :
       LET p == preds_of(drawer.cls, calls[k].is_active)
       IN  /\ calls[k].is_active.E /\ ~calls[k].is_active.N
           /\ ~calls[k].is_active.S /\ ~calls[k].is_active.W
           /\ p.top_left_corner /\ ~p.top_right_corner /\ ~p.alone

-----------------------------------------------------------------------------
(* C25 *)

\* two contexts agree on the module itself and on its four orthogonal neighbours
SameOrthogonal(a, b) ==
  /\ a.me = b.me
  /\ a.N = b.N /\ a.S = b.S /\ a.E = b.E /\ a.W = b.W

\* C25: in every neighbour-aware class, two drawrect calls on the same cell
\* position of the same image whose contexts agree on the module and on N,
\* S, E and W emit the same primitive (or both nothing), whatever the
\* diagonal neighbours and the other modules of the two matrices are.
\* (Each call is compared, when it is the latest, with all the calls before it.)
C25_OnlyOrthogonalNeighboursMatter ==
  \A j, k \in DOMAIN calls :
    ( /\ k = Len(calls)
      /\ drawer.cls \in NeighborClasses
      /\ calls[j].img = calls[k].img
      /\ calls[j].cell = calls[k].cell
      /\ SameOrthogonal(calls[j].is_active, calls[k].is_active) )
    => calls[j].out = calls[k].out

\* the same position was drawn for two matrices that differ on all four
\* diagonal neighbours and agree on the rest of the context, and a primitive
\* was emitted both times
C25_Witness ==
  \E j, k \in DOMAIN calls :
    /\ drawer.cls \in NeighborClasses
    /\ calls[j].img = calls[k].img
    /\ calls[j].cell = calls[k].cell
    /\ SameOrthogonal(calls[j].is_active, calls[k].is_active)
    /\ calls[j].is_active.NW # calls[k].is_active.NW
    /\ calls[j].is_active.NE # calls[k].is_active.NE
    /\ calls[j].is_active.SW # calls[k].is_active.SW
    /\ calls[j].is_active.SE # calls[k].is_active.SE
    /\ calls[j].out # <<>> /\ calls[k].out # <<>>

-----------------------------------------------------------------------------
(* C26 *)

\* what the calls of pass p emitted, in the order in which they were made
\* (the order in which they appended to the sink)
RECURSIVE DirectUpTo(_, _)
DirectUpTo(p, n) ==
  IF n = 0 THEN <<>>
  ELSE DirectUpTo(p, n - 1) \o (IF calls[n].pass = p THEN calls[n].out ELSE <<>>)

Direct(p) == DirectUpTo(p, Len(calls))

\* what the call of pass p on the module of index cell emitted
OutOf(p, cell) ==
  LET k == CHOOSE j \in DOMAIN calls : calls[j].pass = p /\ calls[j].cell = cell
  IN  calls[k].out

\* what the calls of pass p emitted, merged by row-major index of the module
RECURSIVE MergedUpTo(_, _)
MergedUpTo(p, n) ==
  IF n = 0 THEN <<>> ELSE MergedUpTo(p, n - 1) \o OutOf(p, n - 1)

Merged(p) == MergedUpTo(p, NCells)

\* the pass rendered by the workers is over
WorkersDone == passes = MaxPasses /\ next_cell = NCells

\* C26: in every deterministic class, what a call emits for a module does
\* not depend on the calls made before it or on what the sink holds: when
\* two workers have rendered the matrix in some interleaving, each module's
\* primitive is the one the sequential row-major pass emitted for it, and
\* the workers' results merged by row-major index are the sequence the
\* sequential pass appended to the sink.
C26_MergedEqualsSequential ==
  WorkersDone =>
    /\ \A cell \in 0 .. NCells - 1 : OutOf(MaxPasses, cell) = OutOf(1, cell)
    /\ Merged(MaxPasses) = Direct(1)
    /\ Direct(1) = SubSeq(Sink("A"), 1, Len(Direct(1)))

\* the workers have rendered the matrix out of row-major order: what they
\* appended directly to the sink is in another order than the sequential
\* pass, and their results merged by index are not
C26_Witness ==
  /\ WorkersDone
  /\ Direct(1) # <<>>
  /\ Direct(MaxPasses) # Direct(1)
  /\ Direct(MaxPasses) =
       SubSeq(Sink("A"), Len(Sink("A")) - Len(Direct(MaxPasses)) + 1, Len(Sink("A")))
  /\ Merged(MaxPasses) = Direct(1)

-----------------------------------------------------------------------------
(* C27 *)

\* a step of the render pass that is a drawrect call
IsDrawrectStep == next_cell' = next_cell + 1

\* list new is list old, or list old with one item added at its end
GrewByOne(old, new) ==
  \/ new = old
  \/ Len(new) = Len(old) + 1 /\ SubSeq(new, 1, Len(old)) = old

\* the sink of image i is left alone or grows by one item at its end
OneAppend(i) ==
  /\ GrewByOne(_img[i], _img'[i])
  /\ GrewByOne(_subpaths[i], _subpaths'[i])
  /\ _img'[i] = _img[i] \/ _subpaths'[i] = _subpaths[i]

-----------------------------------------------------------------------------
(* C28 *)

\* the box sizes of the drawer are the ones derived from its current image
SizesFromImage ==
  LET bsize == DecMul(Decimal(Images[drawer.img].box_size), drawer.size_ratio)
  IN  /\ drawer.box_size = bsize
      /\ drawer.box_half = bsize \div 2
      /\ drawer.box_delta =
           ((Decimal(1) - drawer.size_ratio) * Images[drawer.img].box_size) \div 2

\* C28: once a drawer constructed without an explicit fill_color has been
\* initialized again, every per-render constant it uses is derived from the
\* image of that last initialize: the box sizes from its cell size, and the
\* fill colour (of the drawer and of every element it then emits) from its
\* front_color.
C28_ReinitializationComplete ==
  (passes >= 2 /\ drawer.fill_color \notin ExplicitFills) =>
    /\ SizesFromImage
    /\ drawer.fill_color = Images[drawer.img].front_color
    /\ \A k \in Current :
         (drawer.cls \notin PathClasses /\ calls[k].out # <<>>) =>
           calls[k].out[1].fill = Images[drawer.img].front_color

-----------------------------------------------------------------------------
(* C29 *)

\* the block predicates among the predicates p of a call
Blocks(p) == {n \in DOMAIN p : PrecedenceRank(n) \in 5 .. 8}

\* the classes that define four corner predicates, four block predicates
\* and alone
CornerBlockClasses ==
  {cls \in CornerClasses :
     Cardinality(Blocks(preds_of(cls, active_with_neighbors([c \in Cells |-> TRUE], 0, 0)))) = 4}

HasCornersBlocksAlone == drawer.cls \in CornerBlockClasses

\* exactly two of the four neighbours are inactive, one vertical and one horizontal
TwoAdjacentInactive(a) == (a.N # a.S) /\ (a.E # a.W)

\* the corner predicate of p for the corner between those two neighbours
CornerBetween(a, p) ==
  LET rank == IF ~a.N THEN (IF ~a.W THEN 1 ELSE 2) ELSE (IF ~a.W THEN 3 ELSE 4)
  IN  CHOOSE n \in Corners(p) : PrecedenceRank(n) = rank

\* the call emitted the element of one of the variants named
EmittedVariant(k, names) ==
  \E n \in names : calls[k].out = <<el_of(drawer, calls[k].box, n)>>

\* the variants that are final under some order of the four corner tests
\* (followed by the blocks, then alone, as coded): each true corner predicate
\* is the last true one in some order, and it stays unless a block or alone
\* overwrites it
FinalInSomeOrder(p) ==
  LET corners == {n \in Corners(p) : p[n]}
      rest == {n \in DOMAIN p \ Corners(p) : p[n]}
  IN  IF rest # {}
      THEN {CHOOSE n \in rest : \A o \in rest : PrecedenceRank(o) <= PrecedenceRank(n)}
      ELSE IF corners # {} THEN corners ELSE {"base"}

\* C29: in every class with corner, block and alone variants, a corner
\* variant is the final shape exactly when exactly two neighbours are
\* inactive, one vertical and one horizontal, and it is the corner between
\* them; when two or more corner predicates are true a block or alone
\* variant is the final shape; the order in which the four corner predicates
\* are tested does not change the shape; at most one block predicate is
\* true, and none together with alone. (Each call is read when it is the
\* latest, so that the drawer is the one that emitted it; final is the
\* variant whose element the call emitted.)
C29_CornerFinalIffTwoAdjacent ==
  (HasCornersBlocksAlone /\ Len(calls) \in Evaluated \cap Current) =>
      LET k == Len(calls)
          a == calls[k].is_active
          p == preds_of(drawer.cls, a)
          final == variant_of(drawer.cls, p)
      IN  /\ EmittedVariant(k, {final})
          /\ final \in Corners(p) <=> TwoAdjacentInactive(a)
          /\ TwoAdjacentInactive(a) => final = CornerBetween(a, p)
          /\ Cardinality({n \in Corners(p) : p[n]}) >= 2 =>
               final \in Blocks(p) \cup {"alone"}
          /\ FinalInSomeOrder(p) = {final}
          /\ Cardinality({n \in Blocks(p) : p[n]}) <= 1
          /\ \A n \in Blocks(p) : ~(p[n] /\ p.alone)

\* a module with N and W inactive, S and E active emitted as the top-left
\* corner, and a module with only E active (two corner predicates true)
\* emitted as the left block
C29_Witness ==
  /\ HasCornersBlocksAlone
  /\ \E k \in Evaluated \cap Current :
       LET a == calls[k].is_active
       IN  /\ ~a.N /\ ~a.W /\ a.S /\ a.E
           /\ EmittedVariant(k, {"top_left_corner"})
  /\ \E k \in Evaluated \cap Current :
       LET a == calls[k].is_active
           p == preds_of(drawer.cls, a)
       IN  /\ ~a.N /\ ~a.W /\ ~a.S /\ a.E
           /\ p.top_left_corner /\ p.left_block
           /\ EmittedVariant(k, {"left_block"})

-----------------------------------------------------------------------------
(* C30 *)

\* the classes that replace a corner by a quarter-circle arc
ArcCornerClasses ==
  {"SvgRoundedDrawer", "SvgRounded2Drawer", "SvgRounded2Inverted2Drawer",
   "SvgSharped2Inverted2Drawer", "SvgSharpedRoundedDrawer",
   "SvgSharpedRounded2Drawer", "SvgSharped2RoundedDrawer"}

\* C30: in each of these classes a module whose final variant is a corner is
\* emitted as the path the rounded drawer builds for that corner from the
\* same x0, y0, x1, y1, xh, yh and corner_r; in particular the bottom-left
\* corner of sharp-rounded is the bottom-left corner of rounded, whose arc
\* starts at (xh, y1) and ends at (x0, y0). (Each call is read when it is the
\* latest.)
C30_SameCornerTemplates ==
  (drawer.cls \in ArcCornerClasses /\ Len(calls) \in Evaluated \cap Current) =>
      LET k == Len(calls)
          p == preds_of(drawer.cls, calls[k].is_active)
          final == variant_of(drawer.cls, p)
      IN  final \in Corners(p) =>
            calls[k].out = <<SvgRoundedDrawer_el(drawer, calls[k].box, final)>>

====
